---- MODULE Spec2Model ----
(***************************************************************************)
(* Shader reflection and pipeline-compatibility layer of IteratedFunctions *)
(* (Shader.hpp / Shader.cpp): stage-pair matching, the Shader handle's     *)
(* ownership of its native module, and the create_shader pipeline with the *)
(* lazily created compiler session; the reflection extractors and type     *)
(* translators they rest on; and the particle-count handling of the        *)
(* Sierpinski2D backend.                                                   *)
(***************************************************************************)
EXTENDS Integers, Sequences, FiniteSets, TLC

VARIABLES
    \* --- stage matching (ShaderDetails::matches) ---
    mSelf,        \* the producer-side ShaderDetails
    mNext,        \* the consumer-side ShaderDetails
    mCalled,      \* whether self.matches(next) has been called
    mResult,      \* the BOOLEAN the call returned
    \* --- interface matching (interfaces_match on two plain lists) ---
    iKinds,       \* <<self kind, next kind>> of the legal transition in use
    iProducer,    \* producer output list
    iConsumer,    \* consumer input list
    iCalled,      \* whether matches has been called
    iResult,      \* the BOOLEAN the call returned
    iLog,         \* the error lines interfaces_match logged, in order
    \* --- Shader handles and the native modules they own ---
    hAlive,       \* hAlive[h]: a Shader object lives in slot h
    hModule,      \* hModule[h]: its m_shader_module (0 is the null handle)
    hMovedFrom,   \* hMovedFrom[h]: the object was last the source of a move
    modCreated,   \* number of native modules created so far (ids 1..modCreated)
    modReleases,  \* modReleases[m]: destroyShaderModule calls made on module m
    hLastOp,      \* the last operation and the module it released (0 for none)
    hDetails,     \* hDetails[h]: the active variant of m_details ("none": no object)
    \* --- compiler session (function-local statics of get_session) ---
    sess,         \* the two statics, whether each is initialised, creation counts
    sessionsSeen, \* the handles get_session() has returned so far
    procCrashed,  \* the process dereferenced a null pointer and died
    nullDeref,    \* which null pointer it dereferenced ("none" if none)
    \* --- one Shader::create_shader call at a time ---
    calls,        \* number of create_shader calls started
    cPc,          \* the step the current call executes next
    cShader,      \* what reflection reports for the shader being loaded
    cSteps,       \* the steps the current call has executed, in order
    cStepRes,     \* the std::expected each of load / link / codegen returned
    cOut,         \* stage, details variant and native module derived so far
    cResult,      \* what the call gave its caller
    vkModules,    \* native shader modules created so far
    cHandles,     \* the Shader values returned by the calls so far, in order
    \* --- construction of a ShaderDetails from an entry point's reflection ---
    rShader,      \* what reflection reports for the linked program
    rCalled,      \* whether ShaderDetails{linked} has been evaluated
    rDetails,     \* the details it constructed, or the exception it threw
    \* --- descriptor and push-constant extraction ---
    bProgram,     \* what reflection reports for the linked program
    bStage,       \* the stage flag passed to the two extractors
    bDescCalled,  \* whether extract_descriptors has been called
    bDescriptors, \* the vector it returned
    bPushCalled,  \* whether extract_push_constants has been called
    bPush,        \* the optional it returned
    \* --- extract_size on a layout table ---
    zTable,       \* the type layouts: size and element layout of each
    zStart,       \* the layout extract_size is called on
    zCalled,      \* whether the call has been made
    zResult,      \* how the call ended and what it returned
    \* --- the translators from reflection types to native types ---
    tScalar,      \* getScalarType() of the type given to to_vk_format
    tCount,       \* getElementCount() of that type
    tFormatCalled, \* whether to_vk_format has been called
    tFormat,      \* the vk::Format it returned
    tBinding,     \* the slang::BindingType given to to_vk_descriptor_type
    tDescCalled,  \* whether to_vk_descriptor_type has been called
    tDescriptorType, \* the vk::DescriptorType it returned
    \* --- a pipeline assembled stage by stage ---
    kChain,       \* the ShaderDetails d1, ..., dn with di.matches(di+1) for all i
    \* --- the Sierpinski2D backend and its particle buffer ---
    pCount,       \* m_particle_count
    pBuffer,      \* *m_particle_buffer: the buffer's id and its particle count
    pDescriptor,  \* id of the buffer bound at binding 0 of m_descriptor_set
    pCreated,     \* ParticleBuffer objects created so far
    pChanges      \* calls of the particle-count setter so far

matchVars == <<mSelf, mNext, mCalled, mResult>>
ifaceVars == <<iKinds, iProducer, iConsumer, iCalled, iResult, iLog>>
handleVars == <<hAlive, hModule, hMovedFrom, modCreated, modReleases, hLastOp, hDetails>>
sessVars == <<sess, sessionsSeen, procCrashed, nullDeref>>
callVars == <<calls, cPc, cShader, cSteps, cStepRes, cOut, cResult, vkModules, cHandles>>
createVars == <<sessVars, callVars>>
entryVars == <<rShader, rCalled, rDetails>>
bindVars == <<bProgram, bStage, bDescCalled, bDescriptors, bPushCalled, bPush>>
sizeVars == <<zTable, zStart, zCalled, zResult>>
reflectVars == <<entryVars, bindVars, sizeVars>>
convertVars == <<tScalar, tCount, tFormatCalled, tFormat, tBinding, tDescCalled, tDescriptorType>>
chainVars == <<kChain>>
particleVars == <<pCount, pBuffer, pDescriptor, pCreated, pChanges>>
extraVars == <<convertVars, chainVars, particleVars>>
vars == <<matchVars, ifaceVars, handleVars, createVars, reflectVars, extraVars>>

\* what the actions of one part of the model leave alone
notMatch == <<ifaceVars, handleVars, createVars, reflectVars, extraVars>>
notIface == <<matchVars, handleVars, createVars, reflectVars, extraVars>>
notHandle == <<matchVars, ifaceVars, createVars, reflectVars, extraVars>>
notCreate == <<matchVars, ifaceVars, handleVars, reflectVars, extraVars>>
notEntry == <<matchVars, ifaceVars, handleVars, createVars, bindVars, sizeVars, extraVars>>
notBind == <<matchVars, ifaceVars, handleVars, createVars, entryVars, sizeVars, extraVars>>
notSize == <<matchVars, ifaceVars, handleVars, createVars, entryVars, bindVars, extraVars>>
notConvert == <<matchVars, ifaceVars, handleVars, createVars, reflectVars, chainVars,
                particleVars>>
notChain == <<matchVars, ifaceVars, handleVars, createVars, reflectVars, convertVars,
              particleVars>>
notParticle == <<matchVars, ifaceVars, handleVars, createVars, reflectVars, convertVars,
                 chainVars>>

-----------------------------------------------------------------------------
(* Bounds *)

\* longest interface list of a ShaderDetails in the stage-pair model
MaxStageVars == 2
\* longest producer / consumer list in the interface-matching model
MaxIfaceVars == 2
\* number of Shader objects that can be alive at once
NumHandles == 3
\* number of native shader modules created in one run
MaxModules == 2
\* number of create_shader calls in one run
MaxCalls == 2
\* most fields of a struct layout
MaxFields == 2
\* most parameters of an entry point
MaxEntryParams == 2
\* most top-level shader parameters of a program
MaxProgramParams == 2
\* number of type layouts in the table extract_size walks
NumLayouts == 3
\* largest element count of a type given to to_vk_format
MaxComponents == 5
\* longest sequence of stages the chain model tries to build
MaxChain == 6
\* particle-count changes made through the slider
MaxChanges == 3

-----------------------------------------------------------------------------
(* Data model: StageVariable and the six ShaderDetails variants *)

\* the variants of ShaderDetailsBase, in declaration order
StageKinds == <<"Vertex", "TessControl", "TessEval", "Geometry", "Fragment", "Compute">>

KindSet == {StageKinds[i] : i \in DOMAIN StageKinds}

\* vk::Format values used for interface variables (a subset of the twelve
\* formats to_vk_format can return)
Formats == {"R32G32B32Sfloat", "R32G32B32A32Sfloat"}

Locations == {0, 1}

Names == {"a", "b"}

\* struct StageVariable {name, location, format}
StageVariable == [name : Names, location : Locations, format : Formats]

\* all sequences over S of length at most n
SeqUpTo(S, n) == UNION {[1..k -> S] : k \in 0..n}

\* interface variables used in the stage-pair model: one per location
StagePairVars ==
    {[name |-> "a", location |-> 0, format |-> "R32G32B32Sfloat"],
     [name |-> "a", location |-> 1, format |-> "R32G32B32A32Sfloat"]}

\* A ShaderDetails value: the active variant and its two interface lists.
\* ComputeDetails has no interface lists; they are modelled empty.
DetailsOf(kind, ins, outs) == [kind |-> kind, inputs |-> ins, outputs |-> outs]

StagePairDetails ==
    {DetailsOf(k, i, o) : k \in KindSet \ {"Compute"},
                          i \in SeqUpTo(StagePairVars, MaxStageVars),
                          o \in SeqUpTo(StagePairVars, MaxStageVars)}
    \cup {DetailsOf("Compute", <<>>, <<>>)}

-----------------------------------------------------------------------------
(* interfaces_match *)

\* the empty std::map
EmptyMap == [l \in {} |-> 0]

\* mutant: producer_map.emplace(var.location, &var) keeps the first entry
RECURSIVE BuildProducerMap_FirstWins(_, _, _)
BuildProducerMap_FirstWins(producer, i, map) ==
    IF i > Len(producer) THEN map
    ELSE BuildProducerMap_FirstWins(producer, i + 1,
            [l \in DOMAIN map \cup {producer[i].location} |->
                IF l \in DOMAIN map THEN map[l] ELSE producer[i]])

\* producer_map[var.location] = &var, for every var in order (later wins)
RECURSIVE BuildProducerMap(_, _, _)
BuildProducerMap(producer, i, map) ==
    IF i > Len(producer) THEN map
    ELSE BuildProducerMap(producer, i + 1,
            [l \in DOMAIN map \cup {producer[i].location} |->
                IF l = producer[i].location THEN producer[i] ELSE map[l]])

\* mutant: the loop returns at the first mismatch
RECURSIVE ConsumerLoop_ShortCircuit(_, _, _, _)
ConsumerLoop_ShortCircuit(consumer, i, map, acc) ==
    IF i > Len(consumer) THEN acc
    ELSE LET input == consumer[i] IN
         IF input.location \notin DOMAIN map
         THEN [valid |-> FALSE,
               mismatches |-> Append(acc.mismatches, [input |-> i, why |-> "missing"])]
         ELSE IF map[input.location].format # input.format
         THEN [valid |-> FALSE,
               mismatches |-> Append(acc.mismatches, [input |-> i, why |-> "format"])]
         ELSE ConsumerLoop_ShortCircuit(consumer, i + 1, map, acc)

\* the loop over the consumer inputs; acc = [valid, mismatches]
RECURSIVE ConsumerLoop(_, _, _, _)
ConsumerLoop(consumer, i, map, acc) ==
    IF i > Len(consumer) THEN acc
    ELSE LET input == consumer[i] IN
         IF input.location \notin DOMAIN map
         THEN ConsumerLoop(consumer, i + 1, map,
                [valid |-> FALSE,
                 mismatches |-> Append(acc.mismatches, [input |-> i, why |-> "missing"])])
         ELSE IF map[input.location].format # input.format
         THEN ConsumerLoop(consumer, i + 1, map,
                [valid |-> FALSE,
                 mismatches |-> Append(acc.mismatches, [input |-> i, why |-> "format"])])
         ELSE ConsumerLoop(consumer, i + 1, map, acc)

\* the whole function: the valid flag and the errors it logged
interfaces_match_run(producer, consumer) ==
    ConsumerLoop(consumer, 1, BuildProducerMap(producer, 1, EmptyMap),
                 [valid |-> TRUE, mismatches |-> <<>>])

interfaces_match(producer, consumer) == interfaces_match_run(producer, consumer).valid

-----------------------------------------------------------------------------
(* XDetails::matches: std::visit over the consumer's variant *)

\* mutant: the lists passed the wrong way round
VertexDetails_matches_Swapped(self, next) ==
    CASE next.kind = "TessControl" -> interfaces_match(next.inputs, self.outputs)
      [] next.kind = "Geometry"    -> interfaces_match(next.inputs, self.outputs)
      [] next.kind = "Fragment"    -> interfaces_match(next.inputs, self.outputs)
      [] OTHER                     -> FALSE

VertexDetails_matches(self, next) ==
    CASE next.kind = "TessControl" -> interfaces_match(self.outputs, next.inputs)
      [] next.kind = "Geometry"    -> interfaces_match(self.outputs, next.inputs)
      [] next.kind = "Fragment"    -> interfaces_match(self.outputs, next.inputs)
      [] OTHER                     -> FALSE

\* mutant: a fragment stage accepts a vertex stage after it
FragmentDetails_matches_Vertex(self, next) == next.kind = "Vertex"

\* mutant: tess_control given the overloads of tess_eval
TessellationControlDetails_matches_LikeEval(self, next) ==
    CASE next.kind = "TessEval" -> interfaces_match(self.outputs, next.inputs)
      [] next.kind = "Geometry" -> interfaces_match(self.outputs, next.inputs)
      [] next.kind = "Fragment" -> interfaces_match(self.outputs, next.inputs)
      [] OTHER                  -> FALSE

TessellationControlDetails_matches(self, next) ==
    CASE next.kind = "TessEval" -> interfaces_match(self.outputs, next.inputs)
      [] OTHER                  -> FALSE

TessellationEvaluationDetails_matches(self, next) ==
    CASE next.kind = "Geometry" -> interfaces_match(self.outputs, next.inputs)
      [] next.kind = "Fragment" -> interfaces_match(self.outputs, next.inputs)
      [] OTHER                  -> FALSE

GeometryDetails_matches(self, next) ==
    CASE next.kind = "Fragment" -> interfaces_match(self.outputs, next.inputs)
      [] OTHER                  -> FALSE

FragmentDetails_matches(self, next) == FALSE

ComputeDetails_matches(self, next) == FALSE

\* ShaderDetails::matches: std::visit over self's variant
ShaderDetails_matches(self, next) ==
    CASE self.kind = "Vertex"      -> VertexDetails_matches(self, next)
      [] self.kind = "TessControl" -> TessellationControlDetails_matches(self, next)
      [] self.kind = "TessEval"    -> TessellationEvaluationDetails_matches(self, next)
      [] self.kind = "Geometry"    -> GeometryDetails_matches(self, next)
      [] self.kind = "Fragment"    -> FragmentDetails_matches(self, next)
      [] self.kind = "Compute"     -> ComputeDetails_matches(self, next)

-----------------------------------------------------------------------------
(* Stage-pair model: two loaded shaders, then self.matches(next) *)

MatchInit ==
    /\ mSelf \in StagePairDetails
    /\ mNext \in StagePairDetails
    /\ mCalled = FALSE
    /\ mResult = FALSE

MatchIdle ==
    /\ mSelf = DetailsOf("Compute", <<>>, <<>>)
    /\ mNext = DetailsOf("Compute", <<>>, <<>>)
    /\ mCalled = FALSE
    /\ mResult = FALSE

\* REQUIRE(a.get_details().matches(b.get_details()))
CallMatches ==
    /\ ~mCalled
    /\ mCalled' = TRUE
    /\ mResult' = ShaderDetails_matches(mSelf, mNext)
    /\ UNCHANGED <<mSelf, mNext, notMatch>>

-----------------------------------------------------------------------------
(* Interface-matching model: a legal transition with arbitrary lists *)

\* the producer/consumer pairs the interface-matching model is run on
LegalTransitions ==
    {<<"Vertex", "TessControl">>, <<"Vertex", "Geometry">>, <<"Vertex", "Fragment">>,
     <<"TessControl", "TessEval">>, <<"TessEval", "Geometry">>, <<"TessEval", "Fragment">>,
     <<"Geometry", "Fragment">>}

\* producer variables all carry one name; consumer variables carry either
ProducerVars == {v \in StageVariable : v.name = "a"}

IfaceInit ==
    /\ iKinds \in LegalTransitions
    /\ iProducer \in SeqUpTo(ProducerVars, MaxIfaceVars)
    /\ iConsumer \in SeqUpTo(StageVariable, MaxIfaceVars)
    /\ iCalled = FALSE
    /\ iResult = FALSE
    /\ iLog = <<>>

IfaceIdle ==
    /\ iKinds = <<"Vertex", "Fragment">>
    /\ iProducer = <<>>
    /\ iConsumer = <<>>
    /\ iCalled = FALSE
    /\ iResult = FALSE
    /\ iLog = <<>>

\* vert.get_details().matches(frag.get_details()) on freshly extracted lists
CallIfaceMatches ==
    /\ ~iCalled
    /\ iCalled' = TRUE
    /\ iResult' = ShaderDetails_matches(DetailsOf(iKinds[1], <<>>, iProducer),
                                        DetailsOf(iKinds[2], iConsumer, <<>>))
    /\ iLog' = interfaces_match_run(iProducer, iConsumer).mismatches
    /\ UNCHANGED <<iKinds, iProducer, iConsumer, notIface>>

-----------------------------------------------------------------------------
(* Chain model: stages appended one by one, each accepted by the one before *)

\* the interface lists of the stages of a chain
ChainLists ==
    {<<>>,
     <<[name |-> "a", location |-> 0, format |-> "R32G32B32Sfloat"]>>,
     <<[name |-> "a", location |-> 1, format |-> "R32G32B32A32Sfloat"]>>}

ChainDetails ==
    {DetailsOf(k, i, o) : k \in KindSet \ {"Compute"}, i \in ChainLists, o \in ChainLists}
    \cup {DetailsOf("Compute", <<>>, <<>>)}

ChainInit == kChain = <<>>

\* the first shader of a pipeline is loaded
StartChain(d) ==
    /\ kChain = <<>>
    /\ kChain' = <<d>>
    /\ UNCHANGED notChain

\* REQUIRE(last.get_details().matches(d)): the next shader is taken when
\* the last one accepts it
ExtendChain(d) ==
    /\ kChain # <<>> /\ Len(kChain) < MaxChain
    /\ ShaderDetails_matches(kChain[Len(kChain)], d)
    /\ kChain' = Append(kChain, d)
    /\ UNCHANGED notChain

ChainNext ==
    \/ \E d \in ChainDetails : StartChain(d)
    \/ \E d \in ChainDetails : ExtendChain(d)

-----------------------------------------------------------------------------
(* Shader handle: private constructor, move operations, destructor *)

Handles == 1..NumHandles

ModuleIds == 1..MaxModules

\* m_device.destroyShaderModule(m)
Release(releases, m) == [releases EXCEPT ![m] = @ + 1]

HandleInit ==
    /\ hAlive = [h \in Handles |-> FALSE]
    /\ hModule = [h \in Handles |-> 0]
    /\ hMovedFrom = [h \in Handles |-> FALSE]
    /\ modCreated = 0
    /\ modReleases = [m \in ModuleIds |-> 0]
    /\ hLastOp = [op |-> "none", released |-> 0, movedFrom |-> FALSE]
    /\ hDetails = [h \in Handles |-> "none"]

\* the variants of the details create_shader hands to the constructor here
HandleKinds == {"Vertex", "Fragment"}

\* Shader::Shader(device, shader_module, stage, details, ...), as called by
\* create_shader with the value create_shader_module returned (a fresh
\* module, or the null handle when createShaderModule failed) and the
\* details built for the entry point's stage.
ConstructShader(h, ok, kind) ==
    /\ ~hAlive[h]
    /\ modCreated < MaxModules
    /\ hAlive' = [hAlive EXCEPT ![h] = TRUE]
    /\ hDetails' = [hDetails EXCEPT ![h] = kind]
    /\ hMovedFrom' = [hMovedFrom EXCEPT ![h] = FALSE]
    /\ IF ok
       THEN /\ modCreated' = modCreated + 1
            /\ hModule' = [hModule EXCEPT ![h] = modCreated + 1]
       ELSE /\ modCreated' = modCreated
            /\ hModule' = [hModule EXCEPT ![h] = 0]
    /\ hLastOp' = [op |-> "construct", released |-> 0, movedFrom |-> FALSE]
    /\ UNCHANGED <<modReleases, notHandle>>

\* mutant: the move constructor copies the module and leaves the source as is
MoveConstructFields_Copy(src) == [dst |-> hModule[src], src |-> hModule[src]]

\* m_shader_module(std::exchange(other.m_shader_module, nullptr))
MoveConstructFields(src) == [dst |-> hModule[src], src |-> 0]

\* mutant: moving out of m_details leaves the first alternative behind
MovedFromDetails_Reset(src) == "Vertex"

\* std::move(other.m_details): the moved-from std::variant keeps its
\* alternative
MovedFromDetails(src) == hDetails[src]

\* Shader::Shader(Shader&& other)
MoveConstruct(dst, src) ==
    /\ hAlive[src] /\ ~hAlive[dst]
    /\ hAlive' = [hAlive EXCEPT ![dst] = TRUE]
    /\ hDetails' = [hDetails EXCEPT ![dst] = hDetails[src], ![src] = MovedFromDetails(src)]
    /\ hModule' = [hModule EXCEPT ![dst] = MoveConstructFields(src).dst,
                                  ![src] = MoveConstructFields(src).src]
    /\ hMovedFrom' = [hMovedFrom EXCEPT ![dst] = FALSE, ![src] = TRUE]
    /\ hLastOp' = [op |-> "move_construct", released |-> 0, movedFrom |-> FALSE]
    /\ UNCHANGED <<modCreated, modReleases, notHandle>>

\* mutant: move assignment that drops the module the target already owns
MoveAssignReleases_Leak(dst) == 0

\* if (m_shader_module) m_device.destroyShaderModule(m_shader_module);
\* the module move assignment releases before taking over (0 for none)
MoveAssignReleases(dst) == hModule[dst]

\* Shader& Shader::operator=(Shader&& other)
MoveAssign(dst, src) ==
    /\ hAlive[dst] /\ hAlive[src]
    /\ IF dst # src
       THEN /\ modReleases' = IF MoveAssignReleases(dst) # 0
                              THEN Release(modReleases, MoveAssignReleases(dst))
                              ELSE modReleases
            /\ hModule' = [hModule EXCEPT ![dst] = hModule[src], ![src] = 0]
            /\ hDetails' = [hDetails EXCEPT ![dst] = hDetails[src],
                                            ![src] = MovedFromDetails(src)]
            /\ hMovedFrom' = [hMovedFrom EXCEPT ![dst] = FALSE, ![src] = TRUE]
            /\ hLastOp' = [op |-> "move_assign", released |-> MoveAssignReleases(dst),
                           movedFrom |-> hMovedFrom[dst]]
       ELSE /\ UNCHANGED <<modReleases, hModule, hMovedFrom, hDetails>>
            /\ hLastOp' = [op |-> "self_assign", released |-> 0, movedFrom |-> hMovedFrom[dst]]
    /\ UNCHANGED <<hAlive, modCreated, notHandle>>

\* Shader::~Shader()
DestroyShader(h) ==
    /\ hAlive[h]
    /\ modReleases' = IF hModule[h] # 0 THEN Release(modReleases, hModule[h]) ELSE modReleases
    /\ hLastOp' = [op |-> "destroy", released |-> hModule[h], movedFrom |-> hMovedFrom[h]]
    /\ hAlive' = [hAlive EXCEPT ![h] = FALSE]
    /\ hModule' = [hModule EXCEPT ![h] = 0]
    /\ hMovedFrom' = [hMovedFrom EXCEPT ![h] = FALSE]
    /\ hDetails' = [hDetails EXCEPT ![h] = "none"]
    /\ UNCHANGED <<modCreated, notHandle>>

HandleNext ==
    \/ \E h \in Handles, ok \in BOOLEAN, kind \in HandleKinds : ConstructShader(h, ok, kind)
    \/ \E dst \in Handles, src \in Handles : MoveConstruct(dst, src)
    \/ \E dst \in Handles, src \in Handles : MoveAssign(dst, src)
    \/ \E h \in Handles : DestroyShader(h)

-----------------------------------------------------------------------------
(* Compiler session: create_global_session, create_spirv_session, get_session *)

\* createGlobalSession(&desc, session.writeRef()): the handle it wrote, 0 (the
\* ComPtr stays null) when it failed; n handles were created before
create_global_session(ok, n) == IF ok THEN n + 1 ELSE 0

\* global->findProfile(...) and global->createSession(...): a null global is
\* dereferenced; otherwise the handle written, 0 when creation failed.
\* The load of the vtable pointer through a null ComPtr faults on the hosted
\* targets this program builds for; the model records it as the process dying.
create_spirv_session(global, ok, n) ==
    IF global = 0 THEN [crash |-> TRUE, session |-> 0]
    ELSE [crash |-> FALSE, session |-> IF ok THEN n + 1 ELSE 0]

\* mutant: the two sessions are plain locals, created again on every call
get_session_NoStatic(st, globalOk, sessionOk) ==
    LET g == create_global_session(globalOk, st.globalCreates)
        c == create_spirv_session(g, sessionOk, st.sessionCreates)
    IN [st |-> [gInit |-> TRUE, gGlobal |-> g, globalCreates |-> st.globalCreates + 1,
                sInit |-> ~c.crash, sSession |-> c.session,
                sessionCreates |-> IF c.crash THEN st.sessionCreates ELSE st.sessionCreates + 1],
        ret |-> c.session, crash |-> c.crash]

\* get_session(): each static is initialised the first time control passes
\* its declaration; st holds the statics, globalOk / sessionOk say whether the
\* two native creations succeed if they are made.
get_session(st, globalOk, sessionOk) ==
    LET st1 == IF st.gInit THEN st
               ELSE [st EXCEPT !.gInit = TRUE,
                               !.gGlobal = create_global_session(globalOk, st.globalCreates),
                               !.globalCreates = @ + 1]
        c == create_spirv_session(st1.gGlobal, sessionOk, st1.sessionCreates)
    IN IF st1.sInit THEN [st |-> st1, ret |-> st1.sSession, crash |-> FALSE]
       ELSE IF c.crash THEN [st |-> st1, ret |-> 0, crash |-> TRUE]
       ELSE [st |-> [st1 EXCEPT !.sInit = TRUE, !.sSession = c.session,
                                !.sessionCreates = @ + 1],
             ret |-> c.session, crash |-> FALSE]

-----------------------------------------------------------------------------
(* Shader compilation: check_diagnostics, load, link, code generation *)

\* what one compiler call hands back: whether it produced its object, and the
\* text of its diagnostics blob ("" for an empty or absent blob).  A call that
\* produced its object may still warn; a call that failed may or may not say why.
NativeOutcomes ==
    {[ok |-> TRUE, diag |-> d] : d \in {"", "warning: unused parameter"}}
    \cup {[ok |-> FALSE, diag |-> d] : d \in {"", "error: compilation failed"}}

\* check_diagnostics: nullopt for a null or empty blob, else its text
check_diagnostics(diag) == IF diag = "" THEN [has |-> FALSE, text |-> ""]
                           ELSE [has |-> TRUE, text |-> diag]

\* results of the three step functions: tag "ok" with the object the ComPtr
\* holds ("valid" or "null"), tag "error" with the message, or tag "crash" with
\* the null pointer dereferenced; cause: the compiler call made by the function
\* that did not produce its object ("none" if each one did); diag: the
\* diagnostics text the function looked at last
StepOk(obj, cause, diag) ==
    [tag |-> "ok", msg |-> "", obj |-> obj, deref |-> "none", cause |-> cause, diag |-> diag]

StepError(msg, cause, diag) ==
    [tag |-> "error", msg |-> msg, obj |-> "none", deref |-> "none", cause |-> cause, diag |-> diag]

StepCrash(deref, cause) ==
    [tag |-> "crash", msg |-> "", obj |-> "none", deref |-> deref, cause |-> cause, diag |-> ""]

ObjectOf(outcome) == IF outcome.ok THEN "valid" ELSE "null"

CauseOf(outcome, call) == IF outcome.ok THEN "none" ELSE call

\* load_shader_program(name, entry_point), given the session get_session()
\* returned and what loadModule, findEntryPointByName and
\* createCompositeComponentType do when called
load_shader_program(session, module, entryFound, composite) ==
    IF session = 0 THEN StepCrash("session", "none")
    ELSE IF check_diagnostics(module.diag).has
         THEN StepError(check_diagnostics(module.diag).text, CauseOf(module, "module"), module.diag)
    ELSE IF ~module.ok THEN StepError("Failed to load module", "module", module.diag)
    ELSE IF ~entryFound THEN StepError("Entry point not found", "entry", module.diag)
    ELSE IF check_diagnostics(composite.diag).has
         THEN StepError(check_diagnostics(composite.diag).text,
                        CauseOf(composite, "composite"), composite.diag)
    ELSE StepOk(ObjectOf(composite), CauseOf(composite, "composite"), composite.diag)

\* link_program(program), given what program->link does
link_program(program, link) ==
    IF program = "null" THEN StepCrash("program", "none")
    ELSE IF check_diagnostics(link.diag).has
         THEN StepError(check_diagnostics(link.diag).text, CauseOf(link, "link"), link.diag)
    ELSE StepOk(ObjectOf(link), CauseOf(link, "link"), link.diag)

\* get_spirv_code(linked), given what linked->getEntryPointCode does; the
\* trace log line reads code->getBufferSize()
get_spirv_code(linked, codegen) ==
    IF linked = "null" THEN StepCrash("linked", "none")
    ELSE IF check_diagnostics(codegen.diag).has
         THEN StepError(check_diagnostics(codegen.diag).text, CauseOf(codegen, "codegen"), codegen.diag)
    ELSE IF ~codegen.ok THEN StepCrash("code", "codegen")
    ELSE StepOk("valid", "none", codegen.diag)

-----------------------------------------------------------------------------
(* Reflection data: type layouts, fields, and the two translators used on them *)

\* A slang::TypeLayoutReflection is a row of a layout table: getKind(), the
\* name of its type ("" for none), getSize(), getElementTypeLayout() (the
\* index of a row of the same table, 0 for null), its fields and its binding
\* ranges.
Layout(kind, name, size, elem, fields, ranges) ==
    [kind |-> kind, name |-> name, size |-> size, elem |-> elem,
     fields |-> fields, ranges |-> ranges]

\* a text as the sequence of its characters
NoSemantic == [present |-> FALSE, text |-> <<>>]

Semantic(text) == [present |-> TRUE, text |-> text]

\* a field of a struct layout: getName(), getSemanticName() (may be null),
\* getBindingIndex(), and the scalar type and element count of its type
Field(name, semantic, index, scalar, count) ==
    [name |-> name, semantic |-> semantic, bindingIndex |-> index,
     scalar |-> scalar, count |-> count]

\* std::string_view::starts_with
starts_with(text, prefix) ==
    Len(text) >= Len(prefix) /\ SubSeq(text, 1, Len(prefix)) = prefix

\* mutant: an element count of 0 is not taken for 1
to_vk_format_ZeroIsUnknown(scalar, elementCount) ==
    IF scalar = "Float32" /\ elementCount \in 1..4
    THEN <<"R32Sfloat", "R32G32Sfloat", "R32G32B32Sfloat", "R32G32B32A32Sfloat">>[elementCount]
    ELSE IF scalar = "Int32" /\ elementCount \in 1..4
    THEN <<"R32Sint", "R32G32Sint", "R32G32B32Sint", "R32G32B32A32Sint">>[elementCount]
    ELSE IF scalar = "UInt32" /\ elementCount \in 1..4
    THEN <<"R32Uint", "R32G32Uint", "R32G32B32Uint", "R32G32B32A32Uint">>[elementCount]
    ELSE "R32G32B32A32Sfloat"

\* to_vk_format(type): scalar type and element count to vk::Format
to_vk_format(scalar, elementCount) ==
    LET count == IF elementCount = 0 THEN 1 ELSE elementCount
    IN IF scalar = "Float32" /\ count <= 4
       THEN <<"R32Sfloat", "R32G32Sfloat", "R32G32B32Sfloat", "R32G32B32A32Sfloat">>[count]
       ELSE IF scalar = "Int32" /\ count <= 4
       THEN <<"R32Sint", "R32G32Sint", "R32G32B32Sint", "R32G32B32A32Sint">>[count]
       ELSE IF scalar = "UInt32" /\ count <= 4
       THEN <<"R32Uint", "R32G32Uint", "R32G32B32Uint", "R32G32B32A32Uint">>[count]
       ELSE "R32G32B32A32Sfloat"

\* format_size(format): bytes of one attribute of that format
format_size(format) ==
    CASE format \in {"R32Sfloat", "R32Sint", "R32Uint"}                         -> 4
      [] format \in {"R32G32Sfloat", "R32G32Sint", "R32G32Uint"}                -> 8
      [] format \in {"R32G32B32Sfloat", "R32G32B32Sint", "R32G32B32Uint"}       -> 12
      [] format \in {"R32G32B32A32Sfloat", "R32G32B32A32Sint", "R32G32B32A32Uint"} -> 16
      [] OTHER                                                                  -> 16

-----------------------------------------------------------------------------
(* Descriptor and push-constant extraction *)

\* the recursion depth the call stack holds; no chain of distinct layouts
\* is longer than the table
MaxRecursion == NumLayouts + 1

\* mutant: the element layout is looked at first
RECURSIVE extract_size_at_ElementFirst(_, _, _)
extract_size_at_ElementFirst(table, type_layout, depth) ==
    IF table[type_layout].elem # 0 /\ table[type_layout].elem # type_layout
       /\ depth < Len(table)
    THEN extract_size_at_ElementFirst(table, table[type_layout].elem, depth + 1)
    ELSE [status |-> "returned", ret |-> table[type_layout].size, depth |-> depth]

\* extract_size(type_layout) entered at recursion depth depth: how the call
\* ends, the value returned, and the deepest recursion reached.  A recursion
\* that goes on for ever has no defined outcome (the stack runs out, or the
\* tail call is turned into a loop that never ends); it is reported as
\* "diverged" once it is deeper than any chain of distinct layouts.
RECURSIVE extract_size_at(_, _, _)
extract_size_at(table, type_layout, depth) ==
    IF table[type_layout].size > 0
    THEN [status |-> "returned", ret |-> table[type_layout].size, depth |-> depth]
    ELSE IF table[type_layout].elem # 0 /\ table[type_layout].elem # type_layout
         THEN IF depth >= MaxRecursion
              THEN [status |-> "diverged", ret |-> 0, depth |-> depth]
              ELSE extract_size_at(table, table[type_layout].elem, depth + 1)
    ELSE [status |-> "returned", ret |-> 0, depth |-> depth]

extract_size(table, type_layout) == extract_size_at(table, type_layout, 0)

\* mutant: the MutableFlag bit is not looked at
to_vk_descriptor_type_IgnoresMutable(binding_type) ==
    CASE binding_type.base = "Sampler"        -> "eSampler"
      [] binding_type.base = "Texture"        -> "eSampledImage"
      [] binding_type.base = "ConstantBuffer" -> "eUniformBuffer"
      [] binding_type.base = "TypedBuffer"    -> "eUniformTexelBuffer"
      [] binding_type.base = "RawBuffer"      -> "eStorageBuffer"
      [] binding_type.base = "CombinedTextureSampler" -> "eCombinedImageSampler"
      [] binding_type.base = "InputRenderTarget"      -> "eInputAttachment"
      [] binding_type.base = "InlineUniformData"      -> "eInlineUniformBlock"
      [] binding_type.base = "RayTracingAccelerationStructure" -> "eAccelerationStructureKHR"
      [] OTHER                                -> "eUniformBuffer"

\* to_vk_descriptor_type(binding_type)
to_vk_descriptor_type(binding_type) ==
    CASE binding_type.base = "Sampler"        -> "eSampler"
      [] binding_type.base = "Texture"        ->
            IF binding_type.mutable THEN "eStorageImage" ELSE "eSampledImage"
      [] binding_type.base = "ConstantBuffer" -> "eUniformBuffer"
      [] binding_type.base = "TypedBuffer"    ->
            IF binding_type.mutable THEN "eStorageTexelBuffer" ELSE "eUniformTexelBuffer"
      [] binding_type.base = "RawBuffer"      -> "eStorageBuffer"
      [] binding_type.base = "CombinedTextureSampler" -> "eCombinedImageSampler"
      [] binding_type.base = "InputRenderTarget"      -> "eInputAttachment"
      [] binding_type.base = "InlineUniformData"      -> "eInlineUniformBlock"
      [] binding_type.base = "RayTracingAccelerationStructure" -> "eAccelerationStructureKHR"
      [] OTHER                                -> "eUniformBuffer"

\* mutant: only varyings are skipped
is_descriptor_range_KeepsPush(binding_type) ==
    ~(binding_type = [base |-> "VaryingInput", mutable |-> FALSE]
      \/ binding_type = [base |-> "VaryingOutput", mutable |-> FALSE])

\* the negation of the test under "Skip non-descriptor types"
is_descriptor_range(binding_type) ==
    ~(binding_type = [base |-> "VaryingInput", mutable |-> FALSE]
      \/ binding_type = [base |-> "VaryingOutput", mutable |-> FALSE]
      \/ binding_type = [base |-> "PushConstant", mutable |-> FALSE])

\* mutant: the binding index counts the descriptors pushed, not the ranges
RECURSIVE extract_bindings_from_CountsKept(_, _, _, _)
extract_bindings_from_CountsKept(table, param, stage, r) ==
    LET ranges == table[param.type].ranges
        kept == Cardinality({q \in 1..r : is_descriptor_range(ranges[q].type)})
    IN
    IF r >= Len(ranges) THEN <<>>
    ELSE IF ~is_descriptor_range(ranges[r + 1].type)
         THEN extract_bindings_from_CountsKept(table, param, stage, r + 1)
    ELSE <<[name |-> param.name,
            size |-> IF ranges[r + 1].leaf # 0
                     THEN extract_size(table, ranges[r + 1].leaf).ret ELSE 0,
            binding |-> param.bindingIndex + kept,
            set |-> param.space,
            descriptor_count |-> ranges[r + 1].count,
            type |-> to_vk_descriptor_type(ranges[r + 1].type),
            stage |-> stage]>>
         \o extract_bindings_from_CountsKept(table, param, stage, r + 1)

\* the range loop of extract_bindings from range r on (r counts from 0)
RECURSIVE extract_bindings_from(_, _, _, _)
extract_bindings_from(table, param, stage, r) ==
    LET ranges == table[param.type].ranges IN
    IF r >= Len(ranges) THEN <<>>
    ELSE IF ~is_descriptor_range(ranges[r + 1].type)
         THEN extract_bindings_from(table, param, stage, r + 1)
    ELSE <<[name |-> param.name,
            size |-> IF ranges[r + 1].leaf # 0
                     THEN extract_size(table, ranges[r + 1].leaf).ret ELSE 0,
            binding |-> param.bindingIndex + r,
            set |-> param.space,
            descriptor_count |-> ranges[r + 1].count,
            type |-> to_vk_descriptor_type(ranges[r + 1].type),
            stage |-> stage]>>
         \o extract_bindings_from(table, param, stage, r + 1)

\* extract_bindings(param, stage)
extract_bindings(table, param, stage) ==
    IF Len(table[param.type].ranges) = 0 THEN <<>>
    ELSE extract_bindings_from(table, param, stage, 0)

\* the parameter loop of extract_descriptors from parameter i on (i counts from 1)
RECURSIVE extract_descriptors_from(_, _, _)
extract_descriptors_from(shader, stage, i) ==
    IF i > Len(shader.params) THEN <<>>
    ELSE extract_bindings(shader.table, shader.params[i], stage)
         \o extract_descriptors_from(shader, stage, i + 1)

extract_descriptors(shader, stage) == extract_descriptors_from(shader, stage, 1)

\* whether some binding range of the parameter's layout is a push constant
has_push_constant_range(table, param) ==
    \E r \in DOMAIN table[param.type].ranges :
        table[param.type].ranges[r].type = [base |-> "PushConstant", mutable |-> FALSE]

\* mutant: the scan goes on and the last push constant found is returned
RECURSIVE extract_push_constants_from_Last(_, _, _)
extract_push_constants_from_Last(shader, stage, i) ==
    IF i > Len(shader.params) THEN <<>>
    ELSE IF extract_push_constants_from_Last(shader, stage, i + 1) # <<>>
         THEN extract_push_constants_from_Last(shader, stage, i + 1)
    ELSE IF has_push_constant_range(shader.table, shader.params[i])
         THEN <<[name |-> shader.params[i].name,
                 offset |-> shader.params[i].offset,
                 size |-> extract_size(shader.table, shader.params[i].type).ret,
                 stage |-> stage]>>
    ELSE <<>>

\* the parameter loop of extract_push_constants from parameter i on: the
\* optional as a list of at most one PushConstantInfo
RECURSIVE extract_push_constants_from(_, _, _)
extract_push_constants_from(shader, stage, i) ==
    IF i > Len(shader.params) THEN <<>>
    ELSE IF has_push_constant_range(shader.table, shader.params[i])
         THEN <<[name |-> shader.params[i].name,
                 offset |-> shader.params[i].offset,
                 size |-> extract_size(shader.table, shader.params[i].type).ret,
                 stage |-> stage]>>
    ELSE extract_push_constants_from(shader, stage, i + 1)

extract_push_constants(shader, stage) == extract_push_constants_from(shader, stage, 1)

-----------------------------------------------------------------------------
(* Stage variable extraction: extract_variables, extract_inputs, extract_outputs *)

\* unwrap_to_struct(type): the struct layout under arrays, streams and
\* patches, 0 for nullptr
RECURSIVE unwrap_to_struct(_, _)
unwrap_to_struct(table, type) ==
    IF type = 0 THEN 0
    ELSE IF table[type].kind = "Struct" THEN type
    ELSE IF table[type].elem # 0 /\ table[type].elem # type
         THEN unwrap_to_struct(table, table[type].elem)
    ELSE 0

\* mutant: no parameter is taken for an output stream
is_output_stream_Never(table, type) == FALSE

is_output_stream(table, type) == table[type].kind = "OutputStream"

\* the test extract_variables makes before it skips a field
is_system_value(field) ==
    field.semantic.present /\ starts_with(field.semantic.text, <<"S", "V", "_">>)

\* the loop of extract_variables from field f on
RECURSIVE extract_variables_from(_, _)
extract_variables_from(fields, f) ==
    IF f > Len(fields) THEN <<>>
    ELSE IF is_system_value(fields[f]) THEN extract_variables_from(fields, f + 1)
    ELSE <<[name |-> fields[f].name,
            location |-> fields[f].bindingIndex,
            format |-> to_vk_format(fields[f].scalar, fields[f].count)]>>
         \o extract_variables_from(fields, f + 1)

extract_variables(table, struct_type) == extract_variables_from(table[struct_type].fields, 1)

\* the loop of extract_inputs from parameter p on
RECURSIVE extract_inputs_from(_, _, _)
extract_inputs_from(table, params, p) ==
    IF p > Len(params) THEN <<>>
    ELSE IF is_output_stream(table, params[p]) THEN extract_inputs_from(table, params, p + 1)
    ELSE IF unwrap_to_struct(table, params[p]) # 0
         THEN extract_variables(table, unwrap_to_struct(table, params[p]))
              \o extract_inputs_from(table, params, p + 1)
    ELSE extract_inputs_from(table, params, p + 1)

extract_inputs(shader) == extract_inputs_from(shader.table, shader.entryParams, 1)

\* the stream-parameter loop of extract_outputs from parameter p on
RECURSIVE extract_stream_outputs_from(_, _, _)
extract_stream_outputs_from(table, params, p) ==
    IF p > Len(params) THEN <<>>
    ELSE IF is_output_stream(table, params[p]) /\ unwrap_to_struct(table, params[p]) # 0
         THEN extract_variables(table, unwrap_to_struct(table, params[p]))
              \o extract_stream_outputs_from(table, params, p + 1)
    ELSE extract_stream_outputs_from(table, params, p + 1)

\* extract_outputs(entry): the return value's struct, then every stream parameter
extract_outputs(shader) ==
    (IF shader.result # 0 /\ unwrap_to_struct(shader.table, shader.result) # 0
     THEN extract_variables(shader.table, unwrap_to_struct(shader.table, shader.result))
     ELSE <<>>)
    \o extract_stream_outputs_from(shader.table, shader.entryParams, 1)

-----------------------------------------------------------------------------
(* Vertex inputs: extract_vertex_inputs *)

\* mutant: the running offset carries on from the previous parameter
StartOffset_Carry(previous) == previous

\* uint32_t offset = 0; at the top of each structured parameter
StartOffset(previous) == 0

\* the field loop of extract_vertex_inputs from field f on: the attributes
\* pushed and the offset reached
RECURSIVE vertex_fields_from(_, _, _, _)
vertex_fields_from(fields, f, param_idx, offset) ==
    IF f > Len(fields) THEN [attributes |-> <<>>, offset |-> offset]
    ELSE LET format == to_vk_format(fields[f].scalar, fields[f].count)
             rest == vertex_fields_from(fields, f + 1, param_idx, offset + format_size(format))
         IN [attributes |-> <<[name |-> fields[f].name,
                               location |-> fields[f].bindingIndex,
                               binding |-> param_idx,
                               offset |-> offset,
                               format |-> format]>> \o rest.attributes,
             offset |-> rest.offset]

\* mutant: the struct's name is not tested
RECURSIVE vertex_params_from_NoNameTest(_, _, _, _)
vertex_params_from_NoNameTest(table, params, p, acc) ==
    IF p > Len(params) THEN acc
    ELSE LET type_layout == table[params[p]] IN
         IF type_layout.kind # "Struct"
         THEN vertex_params_from_NoNameTest(table, params, p + 1, acc)
         ELSE LET fl == vertex_fields_from(type_layout.fields, 1, p - 1, StartOffset(acc.last))
              IN vertex_params_from_NoNameTest(table, params, p + 1,
                    [acc EXCEPT !.attributes = @ \o fl.attributes,
                                !.bindings = Append(@, [binding |-> p - 1,
                                                        stride |-> fl.offset,
                                                        name |-> type_layout.name]),
                                !.last = fl.offset])

\* the parameter loop of extract_vertex_inputs from parameter p on (param_idx
\* is p - 1); acc holds the two vectors and the stride of the last binding
RECURSIVE vertex_params_from(_, _, _, _)
vertex_params_from(table, params, p, acc) ==
    IF p > Len(params) THEN acc
    ELSE LET type_layout == table[params[p]] IN
         IF type_layout.kind # "Struct" THEN vertex_params_from(table, params, p + 1, acc)
         ELSE IF type_layout.name = ""
         THEN [acc EXCEPT !.tag = "throw", !.what = "Vertex input struct has no name"]
         ELSE LET fl == vertex_fields_from(type_layout.fields, 1, p - 1, StartOffset(acc.last))
              IN vertex_params_from(table, params, p + 1,
                    [acc EXCEPT !.attributes = @ \o fl.attributes,
                                !.bindings = Append(@, [binding |-> p - 1,
                                                        stride |-> fl.offset,
                                                        name |-> type_layout.name]),
                                !.last = fl.offset])

extract_vertex_inputs(shader) ==
    vertex_params_from(shader.table, shader.entryParams, 1,
        [tag |-> "ok", what |-> "", attributes |-> <<>>, bindings |-> <<>>, last |-> 0])

-----------------------------------------------------------------------------
(* Stage of the entry point and the ShaderDetails variant *)

\* SlangStage values of the entry points loaded here: the six graphics and
\* compute stages and two stages outside them
SlangStages ==
    {"VERTEX", "HULL", "DOMAIN", "GEOMETRY", "FRAGMENT", "COMPUTE",
     "RAY_GENERATION", "MESH"}

\* the fields the struct layouts below are made of: a system value, a field
\* with an ordinary semantic, and a field without semantic
FieldSet ==
    {Field("pos", Semantic(<<"S", "V", "_", "P", "o", "s", "i", "t", "i", "o", "n">>), 0, "Float32", 4),
     Field("uv", Semantic(<<"T", "E", "X", "C", "O", "O", "R", "D">>), 0, "Float32", 2),
     Field("color", NoSemantic, 1, "Int32", 3)}

\* BindingType values: the base type and the MutableFlag bit
BindingType(base, mutable) == [base |-> base, mutable |-> mutable]

\* one binding range of a type layout: getBindingRangeType,
\* getBindingRangeBindingCount, getBindingRangeLeafTypeLayout (0 for null)
Range(type, count, leaf) == [type |-> type, count |-> count, leaf |-> leaf]

\* Rows 1..6 of a program's layout table: the layouts entry-point parameters
\* and results are made of (two named structs, a struct without a name, a
\* stream and an array of the first struct, a scalar).
EntryRows(fs, gs) ==
    <<Layout("Struct", "VSIn", 0, 0, fs, <<>>),
      Layout("Struct", "PerInstance", 0, 0, gs, <<>>),
      Layout("Struct", "", 0, 0, fs, <<>>),
      Layout("OutputStream", "", 0, 1, <<>>, <<>>),
      Layout("Array", "", 0, 1, <<>>, <<>>),
      Layout("Scalar", "uint", 0, 0, <<>>, <<>>)>>

\* Rows 7.. of the table: the layouts of the top-level shader parameters.
BindingRows ==
    <<\* 7: ConstantBuffer<Params>, 8: struct Params
      Layout("ConstantBuffer", "", 0, 8, <<>>,
             <<Range(BindingType("ConstantBuffer", FALSE), 1, 8)>>),
      Layout("Struct", "Params", 16, 0, <<>>, <<>>),
      \* 9: Texture2D[4], 10: Texture2D
      Layout("Array", "", 0, 10, <<>>, <<Range(BindingType("Texture", FALSE), 4, 10)>>),
      Layout("Resource", "Texture2D", 0, 0, <<>>, <<>>),
      \* 11: SamplerState
      Layout("SamplerState", "SamplerState", 0, 0, <<>>,
             <<Range(BindingType("Sampler", FALSE), 1, 11)>>),
      \* 12, 13: two push-constant blocks, 14: their struct
      Layout("ConstantBuffer", "", 0, 14, <<>>,
             <<Range(BindingType("PushConstant", FALSE), 1, 14)>>),
      Layout("ConstantBuffer", "", 4, 14, <<>>,
             <<Range(BindingType("PushConstant", FALSE), 1, 14)>>),
      Layout("Struct", "Push", 8, 0, <<>>, <<>>),
      \* 15: a varying parameter
      Layout("Struct", "Varyings", 0, 0, <<>>,
             <<Range(BindingType("VaryingInput", FALSE), 1, 0)>>),
      \* 16: a struct of a texture, a varying, a push-constant block and a
      \* read-write buffer
      Layout("Struct", "Material", 0, 0, <<>>,
             <<Range(BindingType("Texture", TRUE), 1, 10),
               Range(BindingType("VaryingOutput", FALSE), 1, 0),
               Range(BindingType("PushConstant", FALSE), 1, 14),
               Range(BindingType("RawBuffer", TRUE), 2, 0)>>)>>

LayoutTable(fs, gs) == EntryRows(fs, gs) \o BindingRows

\* a top-level shader parameter (VariableLayoutReflection): getName(),
\* getOffset(), getBindingIndex(), getBindingSpace(), getTypeLayout()
Param(name, offset, index, space, type) ==
    [name |-> name, offset |-> offset, bindingIndex |-> index, space |-> space, type |-> type]

ProgramParams ==
    {Param("ubo", 0, 0, 0, 7), Param("textures", 0, 1, 0, 9), Param("samp", 0, 2, 1, 11),
     Param("pc", 0, 0, 0, 12), Param("pc2", 8, 0, 0, 13), Param("input", 0, 0, 0, 15),
     Param("material", 0, 3, 0, 16)}

\* What reflection reports for a linked program: the number of entry points
\* of its layout (the program is composed of a module and one entry point),
\* the stage of entry point 0, its parameters and result (rows of the layout
\* table, 0 for no result), and the top-level parameters of the layout.
Program(name, stage, entryParams, result, params, table) ==
    [name |-> name, entryCount |-> 1, stage |-> stage, entryParams |-> entryParams,
     result |-> result, params |-> params, table |-> table]

\* the layout table of the shader files loaded by create_shader
FileTable ==
    LayoutTable(<<Field("pos", Semantic(<<"S", "V", "_", "P", "o", "s", "i", "t", "i", "o", "n">>), 0, "Float32", 4),
                  Field("uv", Semantic(<<"T", "E", "X", "C", "O", "O", "R", "D">>), 0, "Float32", 2)>>,
                <<Field("color", NoSemantic, 1, "Int32", 3)>>)

\* the shader files create_shader is called on: one per stage, and a vertex
\* shader whose structured input parameter has no type name
ShaderInputs ==
    {Program("vertex", "VERTEX", <<1, 6, 2>>, 1, <<Param("ubo", 0, 0, 0, 7), Param("pc", 0, 0, 0, 12)>>, FileTable),
     Program("vertex_nameless", "VERTEX", <<3>>, 1, <<>>, FileTable),
     Program("hull", "HULL", <<5>>, 5, <<>>, FileTable),
     Program("domain", "DOMAIN", <<5>>, 1, <<>>, FileTable),
     Program("geometry", "GEOMETRY", <<5, 4>>, 0, <<>>, FileTable),
     Program("fragment", "FRAGMENT", <<1>>, 2,
             <<Param("textures", 0, 1, 0, 9), Param("samp", 0, 2, 1, 11)>>, FileTable),
     Program("compute", "COMPUTE", <<6>>, 0, <<Param("material", 0, 3, 0, 16)>>, FileTable),
     Program("raygen", "RAY_GENERATION", <<>>, 0, <<>>, FileTable),
     Program("mesh", "MESH", <<>>, 0, <<>>, FileTable)}

to_vk_shader_stage(stage) ==
    CASE stage = "VERTEX"         -> "eVertex"
      [] stage = "FRAGMENT"       -> "eFragment"
      [] stage = "GEOMETRY"       -> "eGeometry"
      [] stage = "HULL"           -> "eTessellationControl"
      [] stage = "DOMAIN"         -> "eTessellationEvaluation"
      [] stage = "COMPUTE"        -> "eCompute"
      [] stage = "RAY_GENERATION" -> "eRaygenKHR"
      [] stage = "INTERSECTION"   -> "eIntersectionKHR"
      [] stage = "ANY_HIT"        -> "eAnyHitKHR"
      [] stage = "CLOSEST_HIT"    -> "eClosestHitKHR"
      [] stage = "MISS"           -> "eMissKHR"
      [] stage = "CALLABLE"       -> "eCallableKHR"
      [] stage = "MESH"           -> "eMeshEXT"
      [] stage = "AMPLIFICATION"  -> "eTaskEXT"
      [] OTHER                    -> "eVertex"

extract_shader_stage(shader) ==
    IF shader.entryCount = 0 THEN "eVertex" ELSE to_vk_shader_stage(shader.stage)

\* a constructed XDetails; for VertexDetails inputs holds the VertexAttributes
Details(kind, inputs, outputs, bindings) ==
    [tag |-> "ok", what |-> "", kind |-> kind, inputs |-> inputs, outputs |-> outputs,
     bindings |-> bindings]

\* an exception thrown while the details were built
Thrown(what) ==
    [tag |-> "throw", what |-> what, kind |-> "none", inputs |-> <<>>, outputs |-> <<>>,
     bindings |-> <<>>]

\* VertexDetails::VertexDetails; extract_vertex_inputs throws on a structured
\* input parameter without a name
VertexDetails_ctor(shader) ==
    IF shader.entryCount = 0 THEN Details("Vertex", <<>>, <<>>, <<>>)
    ELSE LET vi == extract_vertex_inputs(shader)
         IN IF vi.tag = "throw" THEN Thrown(vi.what)
            ELSE Details("Vertex", vi.attributes, extract_outputs(shader), vi.bindings)

TessellationControlDetails_ctor(shader) ==
    IF shader.entryCount = 0 THEN Details("TessControl", <<>>, <<>>, <<>>)
    ELSE Details("TessControl", extract_inputs(shader), extract_outputs(shader), <<>>)

TessellationEvaluationDetails_ctor(shader) ==
    IF shader.entryCount = 0 THEN Details("TessEval", <<>>, <<>>, <<>>)
    ELSE Details("TessEval", extract_inputs(shader), extract_outputs(shader), <<>>)

GeometryDetails_ctor(shader) ==
    IF shader.entryCount = 0 THEN Details("Geometry", <<>>, <<>>, <<>>)
    ELSE Details("Geometry", extract_inputs(shader), extract_outputs(shader), <<>>)

FragmentDetails_ctor(shader) ==
    IF shader.entryCount = 0 THEN Details("Fragment", <<>>, <<>>, <<>>)
    ELSE Details("Fragment", extract_inputs(shader), extract_outputs(shader), <<>>)

ComputeDetails_ctor(shader) == Details("Compute", <<>>, <<>>, <<>>)

\* mutant: a stage without a variant gets ComputeDetails
make_shader_details_DefaultsToCompute(shader) ==
    IF shader.entryCount = 0 THEN Thrown("No entry point found")
    ELSE CASE shader.stage = "VERTEX"   -> VertexDetails_ctor(shader)
           [] shader.stage = "HULL"     -> TessellationControlDetails_ctor(shader)
           [] shader.stage = "DOMAIN"   -> TessellationEvaluationDetails_ctor(shader)
           [] shader.stage = "GEOMETRY" -> GeometryDetails_ctor(shader)
           [] shader.stage = "FRAGMENT" -> FragmentDetails_ctor(shader)
           [] OTHER -> ComputeDetails_ctor(shader)

\* make_shader_details(linked): the variant for the entry point's stage, or
\* the exception thrown
make_shader_details(shader) ==
    IF shader.entryCount = 0 THEN Thrown("No entry point found")
    ELSE CASE shader.stage = "VERTEX"   -> VertexDetails_ctor(shader)
           [] shader.stage = "HULL"     -> TessellationControlDetails_ctor(shader)
           [] shader.stage = "DOMAIN"   -> TessellationEvaluationDetails_ctor(shader)
           [] shader.stage = "GEOMETRY" -> GeometryDetails_ctor(shader)
           [] shader.stage = "FRAGMENT" -> FragmentDetails_ctor(shader)
           [] shader.stage = "COMPUTE"  -> ComputeDetails_ctor(shader)
           [] OTHER -> Thrown("Unsupported shader stage")

\* ShaderDetails::stage(): the stage flag of the active variant
ShaderDetails_stage(details) ==
    CASE details.kind = "Vertex"      -> "eVertex"
      [] details.kind = "TessControl" -> "eTessellationControl"
      [] details.kind = "TessEval"    -> "eTessellationEvaluation"
      [] details.kind = "Geometry"    -> "eGeometry"
      [] details.kind = "Fragment"    -> "eFragment"
      [] details.kind = "Compute"     -> "eCompute"

\* create_shader_module(device, spirv): module_res.value, whatever
\* module_res.result says; n modules were created before
create_shader_module(vkOk, n) == IF vkOk THEN n + 1 ELSE 0

-----------------------------------------------------------------------------
(* Details model: a linked program's entry point, then ShaderDetails{linked} *)

\* the stages make_shader_details has a variant for
SupportedStages == {"VERTEX", "HULL", "DOMAIN", "GEOMETRY", "FRAGMENT", "COMPUTE"}

\* the fields of the second struct
InstanceFields ==
    <<Field("uv", Semantic(<<"T", "E", "X", "C", "O", "O", "R", "D">>), 0, "Float32", 2),
      Field("color", NoSemantic, 1, "Int32", 3)>>

\* entry points over the first six rows of the layout table: any parameter
\* list, no result or a struct or an array as result, any field list for
\* the first struct
EntryPrograms ==
    {Program("shader", st, ps, r, <<>>, EntryRows(fs, InstanceFields)) :
        st \in SupportedStages,
        ps \in SeqUpTo(1..6, MaxEntryParams),
        r \in {0, 2, 5},
        fs \in SeqUpTo(FieldSet, MaxFields)}

EntryInit ==
    /\ rShader \in EntryPrograms
    /\ rCalled = FALSE
    /\ rDetails = Details("Compute", <<>>, <<>>, <<>>)

EntryIdle ==
    /\ rShader = Program("shader", "COMPUTE", <<>>, 0, <<>>, <<>>)
    /\ rCalled = FALSE
    /\ rDetails = Details("Compute", <<>>, <<>>, <<>>)

\* auto details = ShaderDetails{linked->get()};
ConstructDetails ==
    /\ ~rCalled
    /\ rCalled' = TRUE
    /\ rDetails' = make_shader_details(rShader)
    /\ UNCHANGED <<rShader, notEntry>>

-----------------------------------------------------------------------------
(* Binding model: a linked program's parameters, then the two extractors *)

\* programs over any list of the top-level parameters above
BindingPrograms ==
    {Program("shader", "FRAGMENT", <<>>, 0, ps, FileTable) :
        ps \in SeqUpTo(ProgramParams, MaxProgramParams)}

BindInit ==
    /\ bProgram \in BindingPrograms
    /\ bStage \in {"eVertex", "eFragment", "eCompute"}
    /\ bDescCalled = FALSE
    /\ bDescriptors = <<>>
    /\ bPushCalled = FALSE
    /\ bPush = <<>>

BindIdle ==
    /\ bProgram = Program("shader", "COMPUTE", <<>>, 0, <<>>, <<>>)
    /\ bStage = "eCompute"
    /\ bDescCalled = FALSE
    /\ bDescriptors = <<>>
    /\ bPushCalled = FALSE
    /\ bPush = <<>>

\* auto push_constants = extract_push_constants(linked->get(), stage);
CallExtractPushConstants ==
    /\ ~bPushCalled
    /\ bPushCalled' = TRUE
    /\ bPush' = extract_push_constants(bProgram, bStage)
    /\ UNCHANGED <<bProgram, bStage, bDescCalled, bDescriptors, notBind>>

\* auto descriptors = extract_descriptors(linked->get(), stage);
CallExtractDescriptors ==
    /\ bPushCalled /\ ~bDescCalled
    /\ bDescCalled' = TRUE
    /\ bDescriptors' = extract_descriptors(bProgram, bStage)
    /\ UNCHANGED <<bProgram, bStage, bPushCalled, bPush, notBind>>

BindNext == CallExtractPushConstants \/ CallExtractDescriptors

-----------------------------------------------------------------------------
(* Size model: extract_size on a table of layouts *)

\* tables of NumLayouts layouts: each has size 0 or a size of its own, and
\* as element layout none (0) or any layout of the table
SizeTables ==
    {[t \in 1..NumLayouts |->
        Layout("Array", "", IF nonzero[t] THEN 4 * t ELSE 0, element[t], <<>>, <<>>)] :
        nonzero \in [1..NumLayouts -> BOOLEAN],
        element \in [1..NumLayouts -> 0..NumLayouts]}

SizeInit ==
    /\ zTable \in SizeTables
    /\ zStart \in 1..NumLayouts
    /\ zCalled = FALSE
    /\ zResult = [status |-> "none", ret |-> 0, depth |-> 0]

SizeIdle ==
    /\ zTable = <<>>
    /\ zStart = 0
    /\ zCalled = FALSE
    /\ zResult = [status |-> "none", ret |-> 0, depth |-> 0]

\* std::size_t size = extract_size(type_layout);
CallExtractSize ==
    /\ ~zCalled
    /\ zCalled' = TRUE
    /\ zResult' = extract_size(zTable, zStart)
    /\ UNCHANGED <<zTable, zStart, notSize>>

-----------------------------------------------------------------------------
(* Translator model: to_vk_format and to_vk_descriptor_type on any input *)

\* slang::TypeReflection::ScalarType
ScalarTypes ==
    {"None", "Void", "Bool", "Int32", "UInt32", "Int64", "UInt64", "Float16", "Float32",
     "Float64", "Int8", "UInt8", "Int16", "UInt16"}

\* slang::BindingType base values (the bits under BaseMask)
BindingBases ==
    {"Unknown", "Sampler", "Texture", "ConstantBuffer", "ParameterBlock", "TypedBuffer",
     "RawBuffer", "CombinedTextureSampler", "InputRenderTarget", "InlineUniformData",
     "RayTracingAccelerationStructure", "VaryingInput", "VaryingOutput",
     "ExistentialValue", "PushConstant"}

ConvertInit ==
    /\ tScalar \in ScalarTypes
    /\ tCount \in 0..MaxComponents
    /\ tFormatCalled = FALSE
    /\ tFormat = "eUndefined"
    /\ tBinding \in {BindingType(b, m) : b \in BindingBases, m \in BOOLEAN}
    /\ tDescCalled = FALSE
    /\ tDescriptorType = "none"

ConvertIdle ==
    /\ tScalar = "None"
    /\ tCount = 0
    /\ tFormatCalled = FALSE
    /\ tFormat = "eUndefined"
    /\ tBinding = BindingType("Unknown", FALSE)
    /\ tDescCalled = FALSE
    /\ tDescriptorType = "none"

\* .format = to_vk_format(field->getTypeLayout()->getType())
CallToVkFormat ==
    /\ ~tFormatCalled
    /\ tFormatCalled' = TRUE
    /\ tFormat' = to_vk_format(tScalar, tCount)
    /\ UNCHANGED <<tScalar, tCount, tBinding, tDescCalled, tDescriptorType, notConvert>>

\* .type = to_vk_descriptor_type(binding_type)
CallToVkDescriptorType ==
    /\ ~tDescCalled
    /\ tDescCalled' = TRUE
    /\ tDescriptorType' = to_vk_descriptor_type(tBinding)
    /\ UNCHANGED <<tScalar, tCount, tFormatCalled, tFormat, tBinding, notConvert>>

ConvertNext == CallToVkFormat \/ CallToVkDescriptorType

-----------------------------------------------------------------------------
(* Sierpinski2D: the particle-count slider and reallocate_particle_buffer *)

\* m_particle_count(100000) in the constructor's initialiser list
DefaultParticleCount == 100000

\* values the "Particle Count" slider hands to its setter
SliderValues == {10000, 15000, 20000, 100000, 100000000}

\* the rounding and clamping of the setter
RoundedCount(v) ==
    LET rounded == (v \div 10000) * 10000
    IN IF rounded < 10000 THEN 10000
       ELSE IF rounded > 100000000 THEN 100000000
       ELSE rounded

\* after Sierpinski2D::initialize succeeded
ParticleInit ==
    /\ pCount = DefaultParticleCount
    /\ pBuffer = [id |-> 1, particle_count |-> DefaultParticleCount]
    /\ pDescriptor = 1
    /\ pCreated = 1
    /\ pChanges = 0

\* reallocate_particle_buffer(new_count); createOk: ParticleBuffer::create
\* succeeds, initOk: initialize_random succeeds
reallocate_particle_buffer(new_count, createOk, initOk) ==
    /\ pCount' = new_count
    /\ IF ~createOk
       THEN UNCHANGED <<pBuffer, pDescriptor, pCreated>>
       ELSE /\ pCreated' = pCreated + 1
            /\ pBuffer' = [id |-> pCreated + 1, particle_count |-> new_count]
            /\ pDescriptor' = IF initOk THEN pCreated + 1 ELSE pDescriptor

\* the setter of the "Particle Count" callback, called with slider value v
SetParticleCount(v, createOk, initOk) ==
    /\ pChanges < MaxChanges
    /\ pChanges' = pChanges + 1
    /\ IF RoundedCount(v) # pCount
       THEN reallocate_particle_buffer(RoundedCount(v), createOk, initOk)
       ELSE UNCHANGED <<pCount, pBuffer, pDescriptor, pCreated>>
    /\ UNCHANGED notParticle

ParticleNext ==
    \E v \in SliderValues, createOk \in BOOLEAN, initOk \in BOOLEAN :
        SetParticleCount(v, createOk, initOk)

\* the getter of the callback and get_particle_count()
get_particle_count == pCount

-----------------------------------------------------------------------------
(* Shader::create_shader, one step per action *)

NoStep == [tag |-> "none", msg |-> "", obj |-> "none", deref |-> "none", cause |-> "none", diag |-> ""]

NoSteps == [load |-> NoStep, link |-> NoStep, codegen |-> NoStep]

NoOut ==
    [stage |-> "none", kind |-> "none", module |-> 0,
     details |-> Thrown(""), push_constants |-> <<>>, descriptors |-> <<>>]

NoResult == [tag |-> "none", msg |-> "", module |-> 0, stage |-> "none", kind |-> "none"]

CreateInit ==
    /\ sess = [gInit |-> FALSE, gGlobal |-> 0, globalCreates |-> 0,
               sInit |-> FALSE, sSession |-> 0, sessionCreates |-> 0]
    /\ sessionsSeen = {}
    /\ procCrashed = FALSE
    /\ nullDeref = "none"
    /\ calls = 0
    /\ cPc = "idle"
    /\ cShader = Program("", "COMPUTE", <<>>, 0, <<>>, <<>>)
    /\ cSteps = <<>>
    /\ cStepRes = NoSteps
    /\ cOut = NoOut
    /\ cResult = NoResult
    /\ vkModules = 0
    /\ cHandles = <<>>

\* mutant: the error is replaced by a message of create_shader's own
ReturnUnexpected_Wrapped(err) ==
    [tag |-> "error", msg |-> "Failed to create shader", module |-> 0, stage |-> "none", kind |-> "none"]

\* return std::unexpected{linked.error()} / std::unexpected{spirv.error()}
ReturnUnexpected(err) ==
    [tag |-> "error", msg |-> err, module |-> 0, stage |-> "none", kind |-> "none"]

\* a null pointer was dereferenced inside the call
Crash(deref) ==
    /\ procCrashed' = TRUE
    /\ nullDeref' = deref
    /\ cPc' = "done"
    /\ cResult' = [NoResult EXCEPT !.tag = "crash"]

\* the caller calls Shader::create_shader(device, name, entry_point)
BeginCreateShader(shader) ==
    /\ ~procCrashed
    /\ cPc \in {"idle", "done"}
    /\ calls < MaxCalls
    /\ calls' = calls + 1
    /\ cPc' = "load"
    /\ cShader' = shader
    /\ cSteps' = <<>>
    /\ cStepRes' = NoSteps
    /\ cOut' = NoOut
    /\ cResult' = NoResult
    /\ UNCHANGED <<sessVars, vkModules, cHandles, notCreate>>

\* mutant: link_program runs whatever load_shader_program returned
AndThen_Always(res) == res.tag # "crash"

\* std::expected::and_then: the continuation runs only on a value
AndThen(res) == res.tag = "ok"

\* load_shader_program(name, entry_point), get_session() included
LoadStep(globalOk, sessionOk, module, entryFound, composite) ==
    /\ ~procCrashed /\ cPc = "load"
    /\ LET gs == get_session(sess, globalOk, sessionOk)
           res == load_shader_program(gs.ret, module, entryFound, composite)
       IN /\ sess' = gs.st
          /\ cSteps' = Append(cSteps, "load")
          /\ IF gs.crash
             THEN /\ Crash("global")
                  /\ UNCHANGED <<sessionsSeen, cStepRes>>
             ELSE /\ sessionsSeen' = sessionsSeen \cup {gs.ret}
                  /\ cStepRes' = [cStepRes EXCEPT !.load = res]
                  /\ IF res.tag = "crash" THEN Crash(res.deref)
                     ELSE /\ cPc' = IF AndThen(res) THEN "link" ELSE "failed"
                          /\ UNCHANGED <<procCrashed, nullDeref, cResult>>
    /\ UNCHANGED <<calls, cShader, cOut, vkModules, cHandles, notCreate>>

\* .and_then([](auto prog) { return link_program(std::move(prog)); })
LinkStep(link) ==
    /\ ~procCrashed /\ cPc = "link"
    /\ LET res == link_program(cStepRes.load.obj, link)
       IN /\ cSteps' = Append(cSteps, "link")
          /\ cStepRes' = [cStepRes EXCEPT !.link = res]
          /\ IF res.tag = "crash" THEN Crash(res.deref)
             ELSE /\ cPc' = IF res.tag = "ok" THEN "codegen" ELSE "failed"
                  /\ UNCHANGED <<procCrashed, nullDeref, cResult>>
    /\ UNCHANGED <<sess, sessionsSeen, calls, cShader, cOut, vkModules, cHandles, notCreate>>

\* if (!linked) return std::unexpected{linked.error()};
\* if (!spirv)  return std::unexpected{spirv.error()};
ReturnError ==
    /\ ~procCrashed /\ cPc = "failed"
    /\ cPc' = "done"
    /\ cResult' = ReturnUnexpected(
            IF cStepRes.load.tag = "error" THEN cStepRes.load.msg
            ELSE IF cStepRes.link.tag = "error" THEN cStepRes.link.msg
            ELSE cStepRes.codegen.msg)
    /\ UNCHANGED <<sessVars, calls, cShader, cSteps, cStepRes, cOut, vkModules, cHandles,
                   notCreate>>

\* auto spirv = get_spirv_code(linked->get());
CodegenStep(codegen) ==
    /\ ~procCrashed /\ cPc = "codegen"
    /\ LET res == get_spirv_code(cStepRes.link.obj, codegen)
       IN /\ cSteps' = Append(cSteps, "codegen")
          /\ cStepRes' = [cStepRes EXCEPT !.codegen = res]
          /\ IF res.tag = "crash" THEN Crash(res.deref)
             ELSE /\ cPc' = IF res.tag = "ok" THEN "stage" ELSE "failed"
                  /\ UNCHANGED <<procCrashed, nullDeref, cResult>>
    /\ UNCHANGED <<sess, sessionsSeen, calls, cShader, cOut, vkModules, cHandles, notCreate>>

\* mutant: the native module is created as soon as the code blob exists
StageStep_ModuleFirst ==
    /\ ~procCrashed /\ cPc = "stage"
    /\ cSteps' = Append(cSteps, "stage")
    /\ cOut' = [cOut EXCEPT !.stage = extract_shader_stage(cShader)]
    /\ cPc' = "details"
    /\ vkModules' = vkModules + 1
    /\ UNCHANGED <<sessVars, calls, cShader, cStepRes, cResult, cHandles, notCreate>>

\* auto stage = extract_shader_stage(linked->get());
StageStep ==
    /\ ~procCrashed /\ cPc = "stage"
    /\ cSteps' = Append(cSteps, "stage")
    /\ cOut' = [cOut EXCEPT !.stage = extract_shader_stage(cShader)]
    /\ cPc' = "details"
    /\ UNCHANGED <<sessVars, calls, cShader, cStepRes, cResult, vkModules, cHandles,
                   notCreate>>

\* auto details = ShaderDetails{linked->get()}; an exception it throws leaves
\* create_shader, which has no handler
DetailsStep ==
    /\ ~procCrashed /\ cPc = "details"
    /\ cSteps' = Append(cSteps, "details")
    /\ LET d == make_shader_details(cShader)
       IN IF d.tag = "throw"
          THEN /\ cPc' = "done"
               /\ cResult' = [NoResult EXCEPT !.tag = "exception", !.msg = d.what]
               /\ UNCHANGED cOut
          ELSE /\ cPc' = "push_constants"
               /\ cOut' = [cOut EXCEPT !.kind = d.kind, !.details = d]
               /\ UNCHANGED cResult
    /\ UNCHANGED <<sessVars, calls, cShader, cStepRes, vkModules, cHandles, notCreate>>

\* auto push_constants = extract_push_constants(linked->get(), stage);
PushConstantsStep ==
    /\ ~procCrashed /\ cPc = "push_constants"
    /\ cSteps' = Append(cSteps, "push_constants")
    /\ cOut' = [cOut EXCEPT !.push_constants = extract_push_constants(cShader, cOut.stage)]
    /\ cPc' = "descriptors"
    /\ UNCHANGED <<sessVars, calls, cShader, cStepRes, cResult, vkModules, cHandles,
                   notCreate>>

\* auto descriptors = extract_descriptors(linked->get(), stage);
DescriptorsStep ==
    /\ ~procCrashed /\ cPc = "descriptors"
    /\ cSteps' = Append(cSteps, "descriptors")
    /\ cOut' = [cOut EXCEPT !.descriptors = extract_descriptors(cShader, cOut.stage)]
    /\ cPc' = "module"
    /\ UNCHANGED <<sessVars, calls, cShader, cStepRes, cResult, vkModules, cHandles,
                   notCreate>>

\* auto module = create_shader_module(device, spirv->get());
\* return Shader{device, module, stage, details, ...};
ModuleStep(vkOk) ==
    /\ ~procCrashed /\ cPc = "module"
    /\ cSteps' = Append(cSteps, "module")
    /\ LET m == create_shader_module(vkOk, vkModules)
       IN /\ vkModules' = IF m # 0 THEN vkModules + 1 ELSE vkModules
          /\ cOut' = [cOut EXCEPT !.module = m]
          /\ cResult' = [tag |-> "ok", msg |-> "", module |-> m,
                         stage |-> cOut.stage, kind |-> cOut.kind]
          /\ cHandles' = Append(cHandles,
                [name |-> cShader.name, module |-> m, stage |-> cOut.stage,
                 details |-> cOut.details, push_constants |-> cOut.push_constants,
                 descriptors |-> cOut.descriptors])
    /\ cPc' = "done"
    /\ UNCHANGED <<sessVars, calls, cShader, cStepRes, notCreate>>

CreateNext ==
    \/ \E shader \in ShaderInputs : BeginCreateShader(shader)
    \/ \E globalOk \in BOOLEAN, sessionOk \in BOOLEAN, module \in NativeOutcomes,
          entryFound \in BOOLEAN, composite \in NativeOutcomes :
            LoadStep(globalOk, sessionOk, module, entryFound, composite)
    \/ \E link \in NativeOutcomes : LinkStep(link)
    \/ \E codegen \in NativeOutcomes : CodegenStep(codegen)
    \/ ReturnError
    \/ StageStep
    \/ DetailsStep
    \/ PushConstantsStep
    \/ DescriptorsStep
    \/ \E vkOk \in BOOLEAN : ModuleStep(vkOk)

-----------------------------------------------------------------------------
(* Properties of stage matching *)

\* C1: for every ordered pair of stage kinds outside the seven legal
\* transitions, self.matches(next) returns false whatever the interface
\* lists hold (empty lists included).
C1_IllegalPairNeverMatches ==
    (mCalled /\ <<mSelf.kind, mNext.kind>> \notin LegalTransitions) => (mResult = FALSE)

\* C1 witness: TessControl.matches(Fragment) was called with no variable on
\* either side and returned false.
C1_Witness ==
    /\ mCalled
    /\ mSelf.kind = "TessControl" /\ mNext.kind = "Fragment"
    /\ mSelf.outputs = <<>> /\ mNext.inputs = <<>>
    /\ mResult = FALSE

\* some producer output has the consumer input's location and format
HasSource(producer, input) ==
    \E j \in DOMAIN producer :
        producer[j].location = input.location /\ producer[j].format = input.format

\* no producer output at the input's location, or one with another format
HasDefect(producer, input) ==
    \/ \A j \in DOMAIN producer : producer[j].location # input.location
    \/ \E j \in DOMAIN producer :
        producer[j].location = input.location /\ producer[j].format # input.format

\* the last producer output at the input's location has the input's format
LastSourceAgrees(producer, input) ==
    \E j \in DOMAIN producer :
        /\ producer[j].location = input.location
        /\ \A k \in DOMAIN producer : producer[k].location = input.location => k <= j
        /\ producer[j].format = input.format

\* C2 as stated: on a legal transition matches returns true whenever the
\* producer outputs are a superset of the consumer inputs by location and
\* format, and false as soon as one consumer input has no producer output at
\* its location or has one there with a different format.
C2_AsStated ==
    iCalled =>
        /\ (\A i \in DOMAIN iConsumer : HasSource(iProducer, iConsumer[i])) => (iResult = TRUE)
        /\ (\E i \in DOMAIN iConsumer : HasDefect(iProducer, iConsumer[i])) => (iResult = FALSE)

\* C2 amended: on a legal transition matches returns true exactly when every
\* consumer input finds, as the last producer output at its location, an
\* output of its own format; names and extra producer outputs do not matter.
C2_LastOutputDecides ==
    iCalled =>
        (iResult = TRUE <=> \A i \in DOMAIN iConsumer : LastSourceAgrees(iProducer, iConsumer[i]))

\* C2 witness: a producer with an output the consumer does not read, a
\* consumer variable named differently from its source, and a match.
C2_Witness ==
    /\ iCalled /\ iResult = TRUE
    /\ Len(iProducer) = 2 /\ Len(iConsumer) = 1
    /\ iProducer[1].location # iProducer[2].location
    /\ iConsumer[1].name = "b"

\* the consumer inputs that fail their check
FailingInputs(producer, consumer) ==
    {i \in DOMAIN consumer : ~LastSourceAgrees(producer, consumer[i])}

\* C22: interfaces_match examines every consumer input, also after a
\* mismatch: it logs exactly one error for each consumer input that fails
\* (no output at its location, or a format that differs), in input order,
\* so the number of errors is the number of failing inputs, and the result
\* is true exactly when no input fails.
C22_EveryMismatchRecorded ==
    iCalled =>
        /\ Len(iLog) = Cardinality(FailingInputs(iProducer, iConsumer))
        /\ \A i \in FailingInputs(iProducer, iConsumer) :
             LET why == IF \A j \in DOMAIN iProducer :
                               iProducer[j].location # iConsumer[i].location
                        THEN "missing" ELSE "format"
             IN Cardinality({k \in DOMAIN iLog : iLog[k].input = i}) = 1
                /\ \E k \in DOMAIN iLog : iLog[k] = [input |-> i, why |-> why]
        /\ \A k \in DOMAIN iLog : k > 1 => iLog[k - 1].input < iLog[k].input
        /\ iResult = (FailingInputs(iProducer, iConsumer) = {})

\* C22 witness: both consumer inputs fail, the first for a missing output
\* and the second for its format, and both errors are logged.
C22_Witness ==
    /\ iCalled /\ iResult = FALSE
    /\ Len(iConsumer) = 2 /\ Len(iProducer) = 1
    /\ iLog = <<[input |-> 1, why |-> "missing"], [input |-> 2, why |-> "format"]>>

\* the producer list without every output that a later output of the same
\* location follows
RECURSIVE WithoutShadowed(_, _)
WithoutShadowed(producer, n) ==
    IF n = 0 THEN <<>>
    ELSE WithoutShadowed(producer, n - 1)
         \o (IF \E k \in DOMAIN producer :
                   k > n /\ producer[k].location = producer[n].location
             THEN <<>> ELSE <<producer[n]>>)

\* C27: when several producer outputs share a location, the call returns
\* and logs what it would on the producer list from which every output
\* followed by a later one of the same location is removed: only the last
\* output of a location is compared with the inputs at that location.
C27_OnlyLastOutputOfALocationCounts ==
    iCalled =>
        LET reduced == WithoutShadowed(iProducer, Len(iProducer))
        IN /\ iResult = interfaces_match(reduced, iConsumer)
           /\ iLog = interfaces_match_run(reduced, iConsumer).mismatches
           /\ \A i \in DOMAIN iConsumer :
                (\E k \in DOMAIN iLog : iLog[k].input = i) <=>
                    (\A j \in DOMAIN reduced :
                        reduced[j].location = iConsumer[i].location
                            => reduced[j].format # iConsumer[i].format)

\* C27 witness: two outputs at one location with different formats, and an
\* input of the second one's format there: the call returns true.
C27_Witness ==
    /\ iCalled /\ iResult = TRUE
    /\ Len(iProducer) = 2 /\ Len(iConsumer) = 1
    /\ iProducer[1].location = iProducer[2].location
    /\ iProducer[1].format # iProducer[2].format
    /\ iConsumer[1].location = iProducer[2].location
    /\ iConsumer[1].format = iProducer[2].format

\* C3: on every legal transition self.matches(next) equals
\* interfaces_match(self.outputs, next.inputs).
C3_MatchesDelegates ==
    (mCalled /\ <<mSelf.kind, mNext.kind>> \in LegalTransitions) =>
        (mResult = interfaces_match(mSelf.outputs, mNext.inputs))

\* C3 witness: a legal pair that matches, on which the reversed call and the
\* call on self's input list would both have given the opposite answer.
C3_Witness ==
    /\ mCalled /\ <<mSelf.kind, mNext.kind>> \in LegalTransitions
    /\ mResult = TRUE
    /\ ~interfaces_match(mNext.inputs, mSelf.outputs)
    /\ ~interfaces_match(mSelf.inputs, mNext.inputs)

-----------------------------------------------------------------------------
(* Properties of the Shader handle *)

LiveHolders(m) == {h \in Handles : hAlive[h] /\ hModule[h] = m}

\* C4: under any sequence of construction by create_shader, move
\* construction, move assignment (self-assignment and assignment onto an
\* owning handle included) and destruction, every created native module is
\* released at most once, is never released while a live handle holds it, is
\* held by exactly one live handle until it is released (so it is released
\* once all handles are gone), and a moved-from handle holds the null module
\* and its destructor releases nothing.
C4_ModuleReleasedExactlyOnce ==
    /\ \A m \in ModuleIds :
        /\ modReleases[m] <= 1
        /\ m > modCreated => modReleases[m] = 0 /\ LiveHolders(m) = {}
        /\ m <= modCreated /\ modReleases[m] = 1 => LiveHolders(m) = {}
        /\ m <= modCreated /\ modReleases[m] = 0 => Cardinality(LiveHolders(m)) = 1
    /\ \A h \in Handles : hAlive[h] /\ hMovedFrom[h] => hModule[h] = 0
    /\ hLastOp.op = "destroy" /\ hLastOp.movedFrom => hLastOp.released = 0

\* C4 witness: a move assignment onto a handle that owned a module has
\* released that module, the other module now lives in the target, and the
\* moved-from source is still alive.
C4_Witness ==
    /\ hLastOp.op = "move_assign" /\ hLastOp.released # 0
    /\ \E dst \in Handles, src \in Handles :
        /\ dst # src /\ hAlive[dst] /\ hAlive[src]
        /\ hModule[dst] # 0 /\ hMovedFrom[src]
    /\ modCreated = 2

\* C15 as stated: the variant of a handle's details never changes while the
\* handle lives.
C15_AsStated ==
    [][\A h \in Handles : (hAlive[h] /\ hAlive'[h]) => hDetails'[h] = hDetails[h]]_vars

\* C15 amended: a live handle has exactly one of the six variants active,
\* the one built for the entry point's stage when create_shader constructed
\* it; the variant of a living handle changes in one way only, by a move
\* assignment onto it, which gives it the variant (and the module) of the
\* source; a handle that is moved from keeps its variant.
C15_VariantChangesOnlyByMoveAssign ==
    /\ [](\A h \in Handles : hAlive[h] => hDetails[h] \in KindSet)
    /\ [][\A h \in Handles :
            /\ (~hAlive[h] /\ hAlive'[h] /\ hLastOp'.op = "construct")
                    => hDetails'[h] \in HandleKinds
            /\ (hAlive[h] /\ hAlive'[h] /\ hDetails'[h] # hDetails[h]) =>
                    /\ hLastOp'.op = "move_assign"
                    /\ \E src \in Handles \ {h} :
                        /\ hAlive[src]
                        /\ hDetails'[h] = hDetails[src]
                        /\ hModule'[h] = hModule[src]
                        /\ hMovedFrom'[src] /\ hDetails'[src] = hDetails[src]]_vars

\* C15 witness: a handle constructed for a fragment shader has been the
\* target of a move assignment from a vertex shader's handle and now holds
\* the vertex variant and that handle's module.
C15_Witness ==
    /\ hLastOp.op = "move_assign" /\ hLastOp.released = 2
    /\ hAlive[1] /\ hAlive[2]
    /\ hDetails[2] = "Vertex" /\ hModule[2] = 1
    /\ hDetails[1] = "Vertex" /\ hMovedFrom[1] /\ hModule[1] = 0

-----------------------------------------------------------------------------
(* Properties of create_shader and the compiler session *)

\* C5: a call in which some step failed returns no Shader handle; in
\* particular the handle of a success value never holds the null module.
C5_NoPartialHandle ==
    cResult.tag = "ok" =>
        /\ cStepRes.load.tag = "ok" /\ cStepRes.link.tag = "ok" /\ cStepRes.codegen.tag = "ok"
        /\ cResult.kind # "none"
        /\ cResult.module # 0

\* the first of load, link, codegen whose std::expected holds an error
FirstFailedStep ==
    IF cStepRes.load.tag = "error" THEN "load"
    ELSE IF cStepRes.link.tag = "error" THEN "link"
    ELSE IF cStepRes.codegen.tag = "error" THEN "codegen"
    ELSE "none"

\* the steps up to and including step, in create_shader's order
StepsThrough(step) ==
    CASE step = "load"    -> <<"load">>
      [] step = "link"    -> <<"load", "link">>
      [] step = "codegen" -> <<"load", "link", "codegen">>

C7_NoExceptionEscapes == cResult.tag # "exception"

\* C8: load_shader_program, link_program and get_spirv_code return their
\* success value whenever every compiler call they made produced its object,
\* whether or not the diagnostics blob is empty.
C8_WarningsNeverFail ==
    \A step \in {"load", "link", "codegen"} :
        (cStepRes[step].tag \in {"ok", "error"} /\ cStepRes[step].cause = "none")
            => cStepRes[step].tag = "ok"

\* creation of the global session or of the session has failed
SessionCreationFailed ==
    \/ sess.gInit /\ sess.gGlobal = 0
    \/ sess.sInit /\ sess.sSession = 0

\* C9: when creation of the global session or of the session fails, no null
\* session pointer is dereferenced and the call that triggered the creation
\* returns an error.
C9_SessionFailureIsLoadError ==
    SessionCreationFailed =>
        /\ ~procCrashed
        /\ (cPc = "done" /\ calls = 1) => cResult.tag = "error"

\* C10: across any number of create_shader calls the global session and the
\* session are each created once, by the first call that reaches
\* get_session, and every get_session() call returns that one handle.
C10_SessionCreatedOnce ==
    /\ sess.globalCreates <= 1 /\ sess.sessionCreates <= 1
    /\ Cardinality(sessionsSeen) <= 1
    /\ sessionsSeen # {} =>
        /\ sess.globalCreates = 1 /\ sess.sessionCreates = 1
        /\ sessionsSeen = {sess.sSession}
    /\ (calls >= 1 /\ cPc # "load") => sess.globalCreates = 1

\* C10 witness: the second create_shader call has run its load step and got
\* the session the first call created.
C10_Witness ==
    /\ calls = 2 /\ Len(cSteps) >= 1 /\ ~procCrashed
    /\ sessionsSeen = {1} /\ sess.sessionCreates = 1 /\ sess.globalCreates = 1

\* the steps of create_shader in the order of its statements
StepOrder ==
    <<"load", "link", "codegen", "stage", "details", "push_constants", "descriptors", "module">>

\* C16: the steps of a create_shader call run in the order load, link, code
\* generation, stage extraction, details construction, push-constant and
\* descriptor extraction, native module creation; a native module is created
\* by the last step only, so a call that ends before it has created none.
C16_ModuleCreatedLast ==
    /\ [](/\ Len(cSteps) <= Len(StepOrder)
          /\ cSteps = SubSeq(StepOrder, 1, Len(cSteps))
          /\ (cPc = "done" /\ cResult.tag # "ok") => cSteps # StepOrder)
    /\ [][/\ vkModules' # vkModules =>
                (vkModules' = vkModules + 1 /\ cSteps' = StepOrder /\ cResult'.tag = "ok")
          /\ cSteps' # StepOrder => vkModules' = vkModules]_vars

\* C16 witness: after a call that created a module, a second call failed in
\* code generation and the number of native modules is still one.
C16_Witness ==
    /\ calls = 2 /\ cPc = "done"
    /\ cResult.tag = "error"
    /\ cSteps = <<"load", "link", "codegen">>
    /\ vkModules = 1 /\ Len(cHandles) = 1

\* C17: two create_shader calls on the same shader that both return a
\* handle give handles with equal descriptor lists, push-constant info and
\* details, each owning a native module of its own.
C17_ReloadGivesEqualIndependentHandles ==
    \A i \in DOMAIN cHandles : \A j \in DOMAIN cHandles :
        (i < j /\ cHandles[i].name = cHandles[j].name) =>
            /\ cHandles[i].descriptors = cHandles[j].descriptors
            /\ cHandles[i].push_constants = cHandles[j].push_constants
            /\ cHandles[i].details = cHandles[j].details
            /\ cHandles[i].module # 0 /\ cHandles[j].module # 0
            /\ cHandles[i].module # cHandles[j].module

\* C18: link_program and get_spirv_code return an error whenever the
\* compiler call did not produce its object, a success value of load, link
\* or code generation never carries a null object, and create_shader never
\* dereferences a null program, linked program or code blob.
C18_NullObjectIsAnError ==
    /\ \A step \in {"load", "link", "codegen"} :
        /\ cStepRes[step].tag = "ok" => cStepRes[step].obj = "valid"
        /\ cStepRes[step].cause \in {"composite", "link", "codegen"}
                => cStepRes[step].tag = "error"
    /\ nullDeref \notin {"program", "linked", "code"}

\* a vertex entry point one of whose structured parameters has no type name
HasNamelessVertexStruct(shader) ==
    /\ shader.stage = "VERTEX"
    /\ \E p \in DOMAIN shader.entryParams :
        /\ shader.table[shader.entryParams[p]].kind = "Struct"
        /\ shader.table[shader.entryParams[p]].name = ""

\* C23: a vertex entry point with a structured input parameter whose struct
\* has no name is fatal: the call builds no details, creates no module and
\* returns no handle, so every VertexBinding of every handle returned has a
\* non-empty name and no handle stems from such a shader.
C23_NamelessVertexStructIsFatal ==
    /\ \A k \in DOMAIN cHandles :
        /\ \A b \in DOMAIN cHandles[k].details.bindings :
              cHandles[k].details.bindings[b].name # ""
        /\ \A shader \in ShaderInputs :
              shader.name = cHandles[k].name => ~HasNamelessVertexStruct(shader)
    /\ (HasNamelessVertexStruct(cShader) /\ cPc = "done") =>
        /\ cResult.tag # "ok"
        /\ cOut.details.tag = "throw"
        /\ cOut.module = 0

\* C23 witness: a vertex shader was loaded and its handle has a named
\* binding; then the shader with the nameless struct was loaded up to the
\* construction of its details, which threw.
C23_Witness ==
    /\ Len(cHandles) = 1 /\ Len(cHandles[1].details.bindings) = 2
    /\ cHandles[1].details.bindings[1].name = "VSIn"
    /\ HasNamelessVertexStruct(cShader) /\ cPc = "done"
    /\ cSteps = <<"load", "link", "codegen", "stage", "details">>
    /\ cResult.tag = "exception"

\* the stage flags ShaderDetails::stage() can return
KnownStageFlags ==
    {"eVertex", "eTessellationControl", "eTessellationEvaluation", "eGeometry",
     "eFragment", "eCompute"}

\* C26: in every handle create_shader returned, the stored stage flag, which
\* is also stamped on each DescriptorInfo and on the PushConstantInfo, equals
\* get_details().stage() and is one of the six known flags.
C26_StoredStageAgreesWithDetails ==
    \A k \in DOMAIN cHandles :
        /\ cHandles[k].details.tag = "ok"
        /\ cHandles[k].stage = ShaderDetails_stage(cHandles[k].details)
        /\ cHandles[k].stage \in KnownStageFlags
        /\ \A d \in DOMAIN cHandles[k].descriptors :
              cHandles[k].descriptors[d].stage = cHandles[k].stage
        /\ \A c \in DOMAIN cHandles[k].push_constants :
              cHandles[k].push_constants[c].stage = cHandles[k].stage

\* C26 witness: a vertex shader with a push-constant block and a fragment
\* shader with two descriptors have been loaded.
C26_Witness ==
    /\ Len(cHandles) = 2
    /\ cHandles[1].stage = "eVertex" /\ Len(cHandles[1].push_constants) = 1
    /\ cHandles[2].stage = "eFragment" /\ Len(cHandles[2].descriptors) = 2
    /\ cHandles[2].details.kind = "Fragment"

-----------------------------------------------------------------------------
(* Properties of the extracted interface lists *)

\* the names of the fields, in any struct of the program, whose semantic
\* name starts with SV_
SystemValueNames(shader) ==
    {shader.table[t].fields[f].name :
        <<t, f>> \in {tf \in (DOMAIN shader.table) \X (1..MaxFields + 1) :
                        /\ tf[2] <= Len(shader.table[tf[1]].fields)
                        /\ LET field == shader.table[tf[1]].fields[tf[2]]
                           IN field.semantic.present
                              /\ Len(field.semantic.text) >= 3
                              /\ field.semantic.text[1] = "S"
                              /\ field.semantic.text[2] = "V"
                              /\ field.semantic.text[3] = "_"}}

\* C11: no field whose semantic name starts with SV_ appears in the input
\* list or the output list of the details of any stage, the attribute list
\* of the vertex stage included, wherever the field stands in its struct.
C11_NoSystemValueExtracted ==
    (rCalled /\ rDetails.tag = "ok") =>
        /\ \A i \in DOMAIN rDetails.inputs :
            rDetails.inputs[i].name \notin SystemValueNames(rShader)
        /\ \A i \in DOMAIN rDetails.outputs :
            rDetails.outputs[i].name \notin SystemValueNames(rShader)

\* the entry-point parameters whose layout is a struct, by position
StructParams(shader) ==
    {p \in DOMAIN shader.entryParams : shader.table[shader.entryParams[p]].kind = "Struct"}

FieldsOfParam(shader, p) == shader.table[shader.entryParams[p]].fields

\* bytes taken by the first n fields of a list
RECURSIVE BytesOfFirst(_, _)
BytesOfFirst(fields, n) ==
    IF n = 0 THEN 0
    ELSE BytesOfFirst(fields, n - 1)
         + format_size(to_vk_format(fields[n].scalar, fields[n].count))

\* number of fields of the structured parameters before position p
RECURSIVE FieldsBefore(_, _)
FieldsBefore(shader, p) ==
    IF p = 1 THEN 0
    ELSE FieldsBefore(shader, p - 1)
         + (IF p - 1 \in StructParams(shader) THEN Len(FieldsOfParam(shader, p - 1)) ELSE 0)

\* C14: for a vertex entry point every structured parameter yields one
\* VertexBinding and one VertexAttribute per field in declaration order;
\* attribute k of a binding has as offset the sum of format_size over the
\* fields before it (0 for the first, restarting at every parameter), the
\* stride is the sum over all fields, each attribute's binding is the index
\* of its parameter, and other parameters yield nothing.
C14_VertexBindingLayout ==
    (rCalled /\ rDetails.tag = "ok" /\ rDetails.kind = "Vertex") =>
        /\ Len(rDetails.bindings) = Cardinality(StructParams(rShader))
        /\ Len(rDetails.inputs) = FieldsBefore(rShader, Len(rShader.entryParams) + 1)
        /\ \A p \in StructParams(rShader) :
            LET k == Cardinality({q \in StructParams(rShader) : q <= p})
                fields == FieldsOfParam(rShader, p)
            IN /\ rDetails.bindings[k].binding = p - 1
               /\ rDetails.bindings[k].stride = BytesOfFirst(fields, Len(fields))
               /\ \A f \in DOMAIN fields :
                    LET a == rDetails.inputs[FieldsBefore(rShader, p) + f]
                    IN /\ a.name = fields[f].name
                       /\ a.binding = p - 1
                       /\ a.offset = BytesOfFirst(fields, f - 1)

\* C14 witness: a vertex entry point with two structured parameters; the
\* second binding's first attribute sits at offset 0 after a first binding of
\* 24 bytes, and its second attribute at offset 8 of a stride of 20.
C14_Witness ==
    /\ rCalled /\ rDetails.tag = "ok" /\ rDetails.kind = "Vertex"
    /\ rShader.entryParams = <<1, 2>>
    /\ Len(rDetails.bindings) = 2 /\ Len(rDetails.inputs) = 4
    /\ rDetails.bindings[1].stride = 24 /\ rDetails.bindings[2].stride = 20
    /\ rDetails.inputs[2].offset > 0
    /\ rDetails.inputs[3].offset = 0 /\ rDetails.inputs[4].offset = 8
    /\ rDetails.inputs[4].binding = 1

-----------------------------------------------------------------------------
(* Properties of descriptor and push-constant extraction *)

RangesOf(shader, i) == shader.table[shader.params[i].type].ranges

RangeIsTagged(range, tags) == range.type.base \in tags /\ ~range.type.mutable

\* the ranges of parameter i that are neither varying nor push-constant
KeptRanges(shader, i) ==
    {r \in DOMAIN RangesOf(shader, i) :
        ~RangeIsTagged(RangesOf(shader, i)[r], {"VaryingInput", "VaryingOutput", "PushConstant"})}

\* number of kept ranges of the parameters before parameter i
RECURSIVE KeptBefore(_, _)
KeptBefore(shader, i) ==
    IF i = 1 THEN 0
    ELSE KeptBefore(shader, i - 1) + Cardinality(KeptRanges(shader, i - 1))

\* C12: the descriptor list is the concatenation, over the top-level
\* parameters in declaration order, of one DescriptorInfo per binding range
\* that is not tagged varying-input, varying-output or push-constant, in
\* range order, with descriptor_count the range's element count and size
\* extract_size of the range's leaf layout (0 without leaf layout); varying
\* and push-constant ranges yield none.
C12_DescriptorsAreKeptRanges ==
    bDescCalled =>
        /\ Len(bDescriptors) = KeptBefore(bProgram, Len(bProgram.params) + 1)
        /\ \A i \in DOMAIN bProgram.params : \A r \in KeptRanges(bProgram, i) :
            LET k == KeptBefore(bProgram, i)
                       + Cardinality({q \in KeptRanges(bProgram, i) : q <= r})
                range == RangesOf(bProgram, i)[r]
            IN /\ bDescriptors[k].name = bProgram.params[i].name
               /\ bDescriptors[k].descriptor_count = range.count
               /\ bDescriptors[k].size =
                    (IF range.leaf = 0 THEN 0 ELSE extract_size(bProgram.table, range.leaf).ret)
               /\ bDescriptors[k].stage = bStage

\* C12 witness: a parameter with four ranges, two of them skipped, followed
\* by a texture array: three descriptors, the last with count 4 and size 0.
C12_Witness ==
    /\ bDescCalled
    /\ Len(bProgram.params) = 2
    /\ bProgram.params[1].name = "material" /\ bProgram.params[2].name = "textures"
    /\ Len(bDescriptors) = 3
    /\ bDescriptors[2].descriptor_count = 2 /\ bDescriptors[2].name = "material"
    /\ bDescriptors[3].descriptor_count = 4 /\ bDescriptors[3].size = 0

\* C28: the DescriptorInfo made from binding range r of a parameter (r
\* counted from 0 over all its ranges, skipped ones included) has
\* binding_index = the parameter's binding index + r and carries the
\* parameter's name and set index; so the binding indices of one
\* parameter's descriptors are strictly increasing.
C28_BindingIndexCountsAllRanges ==
    bDescCalled =>
        \A i \in DOMAIN bProgram.params : \A r \in KeptRanges(bProgram, i) :
            LET first == KeptBefore(bProgram, i)
                k == first + Cardinality({q \in KeptRanges(bProgram, i) : q <= r})
            IN /\ bDescriptors[k].binding = bProgram.params[i].bindingIndex + (r - 1)
               /\ bDescriptors[k].name = bProgram.params[i].name
               /\ bDescriptors[k].set = bProgram.params[i].space
               /\ k > first + 1 => bDescriptors[k - 1].binding < bDescriptors[k].binding

\* C28 witness: a parameter at binding 3 whose first and fourth range are
\* descriptors and whose second and third are skipped: bindings 3 and 6.
C28_Witness ==
    /\ bDescCalled
    /\ Len(bProgram.params) = 1 /\ bProgram.params[1].name = "material"
    /\ Len(bDescriptors) = 2
    /\ bDescriptors[1].binding = 3 /\ bDescriptors[2].binding = 6
    /\ bDescriptors[2].name = "material" /\ bDescriptors[2].set = 0

\* the parameters with a binding range tagged push-constant
PushParams(shader) ==
    {i \in DOMAIN shader.params :
        \E r \in DOMAIN RangesOf(shader, i) :
            RangeIsTagged(RangesOf(shader, i)[r], {"PushConstant"})}

-----------------------------------------------------------------------------
(* Properties of extract_size *)

\* the chain layout, element(layout), element(element(layout)), ... up to
\* the first missing element or the first layout met before
RECURSIVE ChainFrom(_, _, _)
ChainFrom(table, t, chain) ==
    IF t = 0 \/ \E k \in DOMAIN chain : chain[k] = t THEN chain
    ELSE ChainFrom(table, table[t].elem, Append(chain, t))

Chain(table, t) == ChainFrom(table, t, <<>>)

\* the chain comes back to a layout it has passed
ChainIsCyclic(table, t) == table[Chain(table, t)[Len(Chain(table, t))]].elem # 0

\* C19: extract_size returns on every layout, those whose element layout is
\* the layout itself and those whose chain of element layouts leads back to
\* an earlier layout included, and its recursion is never deeper than the
\* chain of layouts under the one it is called on.
C19_ExtractSizeTerminates ==
    zCalled =>
        /\ zResult.status = "returned"
        /\ zResult.depth < Len(Chain(zTable, zStart))

\* C20: when extract_size returns, it returns the size of the first layout
\* of nonzero size on the chain layout, element(layout), ...; it returns 0
\* exactly when every layout on the chain has size 0, and never the size of
\* a deeper layout when a shallower one is nonzero.
C20_FirstNonzeroSize ==
    (zCalled /\ zResult.status = "returned") =>
        LET chain == Chain(zTable, zStart)
            nonzero == {k \in DOMAIN chain : zTable[chain[k]].size # 0}
        IN /\ (zResult.ret = 0) <=> (nonzero = {})
           /\ nonzero # {} =>
                \E k \in nonzero :
                    /\ \A j \in nonzero : k <= j
                    /\ zResult.ret = zTable[chain[k]].size
                    /\ zResult.depth = k - 1

\* C20 witness: two layouts of size 0 wrap a third of size 12; a texture
\* handle (size 0, no element layout) gives 0.
C20_Witness ==
    /\ zCalled /\ zResult.status = "returned"
    /\ zStart = 1 /\ zTable[1].size = 0 /\ zTable[1].elem = 2
    /\ zTable[2].size = 0 /\ zTable[2].elem = 3
    /\ zTable[3].size = 12
    /\ zResult.ret = 12 /\ zResult.depth = 2

-----------------------------------------------------------------------------
(* Properties of extract_inputs and extract_outputs *)

\* the struct layout under a layout: the first struct on its chain of
\* element layouts, 0 when there is none
StructUnder(table, t) ==
    LET chain == Chain(table, t)
        structs == {k \in DOMAIN chain : table[chain[k]].kind = "Struct"}
    IN IF structs = {} THEN 0
       ELSE chain[CHOOSE k \in structs : \A j \in structs : k <= j]

\* one stage variable per field of a field list that is not a system value
RECURSIVE InterfaceFields(_, _)
InterfaceFields(fields, n) ==
    IF n = 0 THEN <<>>
    ELSE InterfaceFields(fields, n - 1)
         \o (IF fields[n].semantic.present
                /\ Len(fields[n].semantic.text) >= 3
                /\ SubSeq(fields[n].semantic.text, 1, 3) = <<"S", "V", "_">>
             THEN <<>>
             ELSE <<[name |-> fields[n].name, location |-> fields[n].bindingIndex,
                     format |-> to_vk_format(fields[n].scalar, fields[n].count)]>>)

InterfaceOf(table, t) ==
    IF t = 0 \/ StructUnder(table, t) = 0 THEN <<>>
    ELSE InterfaceFields(table[StructUnder(table, t)].fields,
                         Len(table[StructUnder(table, t)].fields))

\* the interface variables of the first n entry-point parameters that are
\* (streams = TRUE) or are not (streams = FALSE) output streams
RECURSIVE InterfaceOfParams(_, _, _)
InterfaceOfParams(shader, n, streams) ==
    IF n = 0 THEN <<>>
    ELSE InterfaceOfParams(shader, n - 1, streams)
         \o (IF (shader.table[shader.entryParams[n]].kind = "OutputStream") = streams
             THEN InterfaceOf(shader.table, shader.entryParams[n])
             ELSE <<>>)

InterfaceStages == {"TessControl", "TessEval", "Geometry", "Fragment"}

\* C21: for the stages other than vertex that carry interface lists, the
\* input list is one StageVariable per non-system-value field of every
\* entry-point parameter that is not an output stream, in parameter order
\* then field order; the output list is the non-system-value fields of the
\* return value followed by those of the output-stream parameters in
\* parameter order; a stream's fields are not in the input list, and every
\* location is the binding index of the field.
C21_InterfaceListsFollowParameters ==
    (rCalled /\ rDetails.tag = "ok" /\ rDetails.kind \in InterfaceStages) =>
        /\ rDetails.inputs =
             InterfaceOfParams(rShader, Len(rShader.entryParams), FALSE)
        /\ rDetails.outputs =
             InterfaceOf(rShader.table, rShader.result)
             \o InterfaceOfParams(rShader, Len(rShader.entryParams), TRUE)

\* C21 witness: a geometry entry point taking an array of a struct and a
\* stream of it, with a struct as result; the first input has location 1,
\* and the outputs are the result's fields followed by the stream's.
C21_Witness ==
    /\ rCalled /\ rDetails.tag = "ok" /\ rDetails.kind = "Geometry"
    /\ rShader.entryParams = <<5, 4>> /\ rShader.result = 2
    /\ Len(rDetails.inputs) = 2 /\ rDetails.inputs[1].location = 1
    /\ Len(rDetails.outputs) = 4
    /\ rDetails.outputs[1].name = "uv" /\ rDetails.outputs[3] = rDetails.inputs[1]

-----------------------------------------------------------------------------
(* Properties of the translators *)

\* the native format of n 32-bit channels of a scalar kind
FormatOf(scalar, n) ==
    CASE scalar = "Float32" ->
            <<"R32Sfloat", "R32G32Sfloat", "R32G32B32Sfloat", "R32G32B32A32Sfloat">>[n]
      [] scalar = "Int32" ->
            <<"R32Sint", "R32G32Sint", "R32G32B32Sint", "R32G32B32A32Sint">>[n]
      [] scalar = "UInt32" ->
            <<"R32Uint", "R32G32Uint", "R32G32B32Uint", "R32G32B32A32Uint">>[n]

\* C24 as stated: float32, int32 and uint32 with 1 to 4 components map to
\* the float, signed and unsigned format of that many channels, and every
\* other combination, an element count of 0 included, maps to the
\* 4-channel float format.
C24_AsStated ==
    tFormatCalled =>
        tFormat = IF tScalar \in {"Float32", "Int32", "UInt32"} /\ tCount \in 1..4
                  THEN FormatOf(tScalar, tCount)
                  ELSE "R32G32B32A32Sfloat"

\* C24 amended: to_vk_format always returns a format; float32, int32 and
\* uint32 with 1 to 4 components map to the float, signed and unsigned
\* format of that many channels, with an element count of 0 (a scalar)
\* they map to the 1-channel format of their kind, and every other
\* combination maps to the 4-channel float format.
C24_ZeroCountIsOneChannel ==
    tFormatCalled =>
        tFormat = IF tScalar \in {"Float32", "Int32", "UInt32"} /\ tCount \in 0..4
                  THEN FormatOf(tScalar, IF tCount = 0 THEN 1 ELSE tCount)
                  ELSE "R32G32B32A32Sfloat"

\* C24 witness: a uint32 type with element count 0 has been translated to
\* the 1-channel unsigned format.
C24_Witness ==
    tFormatCalled /\ tScalar = "UInt32" /\ tCount = 0 /\ tFormat = "R32Uint"

\* C25: to_vk_descriptor_type returns a descriptor type for every binding
\* type: the nine handled kinds map to their native equivalents, a texture
\* to storage-image exactly when mutable and else sampled-image, a typed
\* buffer to storage-texel-buffer exactly when mutable and else
\* uniform-texel-buffer, and every other kind to uniform-buffer.
C25_DescriptorTypeIsTotal ==
    tDescCalled =>
        LET native == [b \in BindingBases |->
                CASE b = "Sampler" -> "eSampler"
                  [] b = "Texture" -> "image"
                  [] b = "ConstantBuffer" -> "eUniformBuffer"
                  [] b = "TypedBuffer" -> "texel"
                  [] b = "RawBuffer" -> "eStorageBuffer"
                  [] b = "CombinedTextureSampler" -> "eCombinedImageSampler"
                  [] b = "InputRenderTarget" -> "eInputAttachment"
                  [] b = "InlineUniformData" -> "eInlineUniformBlock"
                  [] b = "RayTracingAccelerationStructure" -> "eAccelerationStructureKHR"
                  [] OTHER -> "eUniformBuffer"]
        IN /\ native[tBinding.base] \notin {"image", "texel"}
                => tDescriptorType = native[tBinding.base]
           /\ native[tBinding.base] = "image"
                => /\ (tDescriptorType = "eStorageImage") <=> tBinding.mutable
                   /\ (tDescriptorType = "eSampledImage") <=> ~tBinding.mutable
           /\ native[tBinding.base] = "texel"
                => /\ (tDescriptorType = "eStorageTexelBuffer") <=> tBinding.mutable
                   /\ (tDescriptorType = "eUniformTexelBuffer") <=> ~tBinding.mutable

\* C25 witness: a mutable typed buffer has been translated to a storage
\* texel buffer.
C25_Witness ==
    /\ tDescCalled /\ tBinding = BindingType("TypedBuffer", TRUE)
    /\ tDescriptorType = "eStorageTexelBuffer"

-----------------------------------------------------------------------------
(* Properties of chains of matching stages *)

\* the position of a kind in the order Vertex, TessControl, TessEval,
\* Geometry, Fragment, Compute
Rank(kind) == CHOOSE r \in DOMAIN StageKinds : StageKinds[r] = kind

-----------------------------------------------------------------------------
(* Properties of the Sierpinski2D backend *)

\* C30: after any sequence of particle-count changes, failed ones included,
\* the particle count the backend reports equals the particle count of the
\* particle buffer it owns.
C30_ReportedCountIsBufferCount ==
    get_particle_count = pBuffer.particle_count

-----------------------------------------------------------------------------
(* Specifications *)

ExtraIdle == ConvertIdle /\ ChainInit /\ ParticleInit

ReflectIdle == EntryIdle /\ BindIdle /\ SizeIdle /\ ExtraIdle

BaseIdle == MatchIdle /\ IfaceIdle /\ HandleInit /\ CreateInit /\ EntryIdle /\ BindIdle /\ SizeIdle

InitMatch == MatchInit /\ IfaceIdle /\ HandleInit /\ CreateInit /\ ReflectIdle

SpecMatch == InitMatch /\ [][CallMatches]_vars

InitIface == IfaceInit /\ MatchIdle /\ HandleInit /\ CreateInit /\ ReflectIdle

SpecIface == InitIface /\ [][CallIfaceMatches]_vars

InitHandle == HandleInit /\ MatchIdle /\ IfaceIdle /\ CreateInit /\ ReflectIdle

SpecHandle == InitHandle /\ [][HandleNext]_vars

InitCreate == CreateInit /\ MatchIdle /\ IfaceIdle /\ HandleInit /\ ReflectIdle

SpecCreate == InitCreate /\ [][CreateNext]_vars

InitEntry ==
    EntryInit /\ BindIdle /\ SizeIdle /\ MatchIdle /\ IfaceIdle /\ HandleInit /\ CreateInit /\ ExtraIdle

SpecEntry == InitEntry /\ [][ConstructDetails]_vars

InitBind ==
    BindInit /\ EntryIdle /\ SizeIdle /\ MatchIdle /\ IfaceIdle /\ HandleInit /\ CreateInit /\ ExtraIdle

SpecBind == InitBind /\ [][BindNext]_vars

InitSize ==
    SizeInit /\ EntryIdle /\ BindIdle /\ MatchIdle /\ IfaceIdle /\ HandleInit /\ CreateInit /\ ExtraIdle

SpecSize == InitSize /\ [][CallExtractSize]_vars

InitConvert == ConvertInit /\ BaseIdle /\ ChainInit /\ ParticleInit

SpecConvert == InitConvert /\ [][ConvertNext]_vars

InitChain == ChainInit /\ BaseIdle /\ ConvertIdle /\ ParticleInit

SpecChain == InitChain /\ [][ChainNext]_vars

InitParticle == ParticleInit /\ BaseIdle /\ ConvertIdle /\ ChainInit

SpecParticle == InitParticle /\ [][ParticleNext]_vars

====
